---- MODULE Spec2Model ----
(***************************************************************************)
(* Heimdall: merge resolver (src/sync/merge.rs), persistence batcher       *)
(* (src/persist/mod.rs) with the ingest handlers that feed it              *)
(* (src/ingest/handler.rs), replication agent and its wire framing         *)
(* (src/sync/agent.rs), OIDC token validation (src/sync/auth.rs), format   *)
(* detection (src/ingest/format_detection.rs) and the canonicalizers       *)
(* (src/lib/normalizers/mod.rs, src/ingest/ndjson.rs).                     *)
(*                                                                         *)
(* The specifications share the variables; in each one the components it   *)
(* does not exercise rest in their idle state:                             *)
(*   SpecMerge, SpecMergeKeyed - MergeResolver::merge on bounded inputs    *)
(*   SpecPersist, SpecTimed    - handlers, channel, batcher worker, store  *)
(*   SpecSync, SpecSyncLive    - per-peer sync loops sharing one pending   *)
(*   SpecFrame                 - send_message / receive_message            *)
(*   SpecAuth                  - OidcProvider                              *)
(*   SpecNdjson                - ndjson_upload reading a chunked body      *)
(*   SpecDetect                - detect_format and detect_dump_type        *)
(*   SpecCanon                 - the canonicalizers applied twice          *)
(*   SpecEnrich                - ResilientClient: breaker, bucket, retries *)
(*   SpecLimit                 - the HTTP rate limiter of each connection  *)
(*   SpecOidcLive              - the two locks of OidcProvider             *)
(*   SpecPersistAge            - the batcher over AgeClient                *)
(***************************************************************************)
EXTENDS Integers, Sequences, FiniteSets, TLC

VARIABLES
    \* ---- merge resolver ----
    mConfig,        \* MergeConfig of the resolver
    mLocal,         \* EntityVersion a
    mRemote,        \* EntityVersion b
    mPc,            \* "start" | "merged" | "done"
    mAB,            \* result of merge(a, b)
    mOp,            \* which second merge was applied
    mOut,           \* result of the second merge
    mOverflowChecks,\* the build checks integer overflow (debug profile)
    \* ---- ingest handler and persistence batcher ----
    pRecords,       \* the normalized records of the request, in order
    pPath,          \* "ndjson" | "multipart" | "bulk": which handler submits
    pCap,           \* channel_capacity
    pBatch,         \* batch_size
    hPc,            \* handler: "submit" | "upsert" | "done" | "error500"
    hIdx,           \* index of the record the handler is at
    hAttempts,      \* bulk task: failed attempts for the current job
    channel,        \* jobs in the mpsc channel, oldest first
    sendersAlive,   \* some PersistSender still exists
    wPc,            \* worker: "select" | "fallback" | "terminated" | "aborted"
    buffer,         \* the worker's buffer
    wJobs,          \* jobs of a failed batch not yet retried one by one
    wDraining,      \* the running flush is the final one (channel closed)
    graph,          \* the graph store: canonical_key -> properties
    calls,          \* every merge_batch / merge_entity call the store received
    accepted,       \* jobs for which submit_job returned Ok
    metrics,        \* the persist_* counters and the queue-length gauge
    wSleep,         \* ticks the sleep of the current select has run
    bufAge,         \* ticks since the oldest buffered job entered the buffer
    \* ---- replication agent ----
    pending,        \* pending_entries: change-log entries waiting to be pushed
    lockHolder,     \* the task holding the write lock on pending_entries
    nextEntry,      \* id of the next entry enqueue_change will add
    sPc,            \* per peer: "idle" | "auth" | "push" | "push_lock" |
                    \*           "push_wait" | "pull"
    sent,           \* per peer: entries_to_push of the Push frame in flight
    sReply,         \* per peer: the reply the last push step ended with
    peerGot,        \* per peer: entries it received in Push frames
    peerAcked,      \* per peer: entries it acknowledged with a matching count
    lastPull,       \* last_pull_timestamps: peer id -> watermark
    cycles,         \* per peer: sync cycles started
    syncMetrics,    \* SyncMetrics counters
    wire,           \* per peer: frames sent and replies received, this cycle
    pushLog,        \* the entries of every Push frame sent, in sending order
    \* ---- wire framing ----
    fStream,        \* bytes written to the stream and not yet read
    fOpen,          \* the connection is in use (no call has failed yet)
    fSent,          \* messages for which send_message returned Ok, in order
    fRecv,          \* messages receive_message returned, in order
    fForeign,       \* the peer wrote a frame of its own making
    fLast,          \* the last call: op, ok, length of the frame
    \* ---- OIDC provider ----
    jwks,           \* OidcProvider.jwks, the cached key set (None until fetched)
    served,         \* the key set the provider's jwks_uri serves now
    aLast,          \* the last validate_token call: token, cache before, fetches made, result
    \* ---- NDJSON upload handler ----
    nBody,          \* the bytes of the request body
    nLimited,       \* the request came through the router's RequestBodyLimitLayer
    nPos,           \* bytes of the body the stream has yielded so far
    nBuf,           \* buf: bytes read and not yet drained as a line
    nRecords,       \* records: the normalized records so far
    nPc,            \* "reading" | "ok" | "rejected"
    \* ---- format detection ----
    dPeek,          \* peek: the first bytes of the upload
    dHint,          \* the format hint of the upload, "none" if absent
    dFormat,        \* what detect_format returned, NotDetected before the call
    dDump,          \* what detect_dump_type returned, NotDetected before the call
    \* ---- canonicalizers ----
    cPath,          \* which canonicalizer is applied
    cInput,         \* its input
    cStrictAscii,   \* the linked idna release rejects ASCII that URLs forbid
    cOnce,          \* the result of canonicalizing the input
    cTwice,         \* the result of canonicalizing the canonical form
    \* ---- enrichment client ----
    eMaxRetries,    \* config.max_retries
    cbState,        \* circuit_breaker.state: "Closed" | "Open" | "HalfOpen"
    cbOpenedAt,     \* opened_at of the Open state
    cbFailures,     \* circuit_breaker.failure_count
    rlTokens,       \* rate_limiter.tokens
    rlLastRefill,   \* rate_limiter.last_refill
    eNow,           \* the clock (Instant::now)
    ePc,            \* per task: "idle" | "start" | "limit" | "sending" | "sleeping" | "done"
    eAttempts,      \* per task: attempts of the running call
    eTrace,         \* per task: the requests sent and backoff sleeps of the call, in order
    eResult,        \* per task: what the last call returned
    eCalls,         \* execute_with_retry calls started so far
    eSinceSuccess,  \* failures recorded since a success was last recorded
    \* ---- HTTP rate limiter (devops/rate_limiter.rs, lib.rs) ----
    limBurst,       \* settings.rate_limit_burst
    limRps,         \* settings.rate_limit_rps
    limOpen,        \* connections whose service stack has been built
    limTokens,      \* TokenBucket.tokens of each connection's layer, in half tokens
    limLastRefill,  \* TokenBucket.last_refill of each connection's layer
    limNow,         \* the clock, in half seconds
    limInner,       \* requests that reached the inner service
    limDenied,      \* requests answered 429
    \* ---- OidcProvider locks (sync/auth.rs) ----
    oPc,            \* position of each task in its OidcProvider call
    oHeld,          \* read and write guards held on discovery_doc and jwks
    oQueue,         \* tasks waiting for each lock, first in first out
    oDoc,           \* discovery_doc is Some
    oKeys,          \* jwks is Some
    oCalls,         \* calls started so far
    \* ---- store implementation (age_client.rs) ----
    pStore          \* the AgeRepo behind the batcher: a repo that reports its errors, or AgeClient

mvars == <<mConfig, mLocal, mRemote, mPc, mAB, mOp, mOut, mOverflowChecks>>

pvars == <<pRecords, pPath, pCap, pBatch, hPc, hIdx, hAttempts, channel,
           sendersAlive, wPc, buffer, wJobs, wDraining, graph, calls,
           accepted, metrics, wSleep, bufAge>>

svars == <<pending, lockHolder, nextEntry, sPc, sent, sReply, peerGot,
           peerAcked, lastPull, cycles, syncMetrics, wire, pushLog>>

fvars == <<fStream, fOpen, fSent, fRecv, fForeign, fLast>>

avars == <<jwks, served, aLast>>

nvars == <<nBody, nLimited, nPos, nBuf, nRecords, nPc>>

dvars == <<dPeek, dHint, dFormat, dDump>>

cvars == <<cPath, cInput, cStrictAscii, cOnce, cTwice>>

evars == <<eMaxRetries, cbState, cbOpenedAt, cbFailures, rlTokens, rlLastRefill, eNow, ePc, eAttempts, eTrace, eResult, eCalls, eSinceSuccess>>

lvars == <<limBurst, limRps, limOpen, limTokens, limLastRefill, limNow, limInner, limDenied>>

ovars == <<oPc, oHeld, oQueue, oDoc, oKeys, oCalls>>

gvars == <<pStore>>

vars == <<mvars, pvars, svars, fvars, avars, nvars, dvars, cvars, evars, lvars, ovars, gvars>>

\* what the actions of one component leave alone
notMerge == <<pvars, svars, fvars, avars, nvars, dvars, cvars, evars, lvars, ovars, gvars>>
notPersist == <<mvars, svars, fvars, avars, nvars, dvars, cvars, evars, lvars, ovars, gvars>>
notSync == <<mvars, pvars, fvars, avars, nvars, dvars, cvars, evars, lvars, ovars, gvars>>
notFrame == <<mvars, pvars, svars, avars, nvars, dvars, cvars, evars, lvars, ovars, gvars>>
notAuth == <<mvars, pvars, svars, fvars, nvars, dvars, cvars, evars, lvars, ovars, gvars>>
notNdjson == <<mvars, pvars, svars, fvars, avars, dvars, cvars, evars, lvars, ovars, gvars>>
notDetect == <<mvars, pvars, svars, fvars, avars, nvars, cvars, evars, lvars, ovars, gvars>>
notCanon == <<mvars, pvars, svars, fvars, avars, nvars, dvars, evars, lvars, ovars, gvars>>
notEnrich == <<mvars, pvars, svars, fvars, avars, nvars, dvars, cvars, lvars, ovars, gvars>>
notLimit == <<mvars, pvars, svars, fvars, avars, nvars, dvars, cvars, evars, ovars, gvars>>
notOidc == <<mvars, pvars, svars, fvars, avars, nvars, dvars, cvars, evars, lvars, gvars>>
notAge == <<mvars, pvars, svars, fvars, avars, nvars, dvars, cvars, evars, lvars, ovars>>

(***************************************************************************)
(* Bounds of the merge inputs.                                             *)
(***************************************************************************)
MaxCount == 1          \* u64 property values range over 0..MaxCount
MaxTimestamp == 2      \* VersionVector.timestamp ranges over 1..MaxTimestamp
U64_MAX == 7           \* u64::MAX, scaled down: u64 arithmetic is modulo U64_MAX + 1

(***************************************************************************)
(* JSON values.  A property value is a JSON number: n >= 0 is a number     *)
(* for which Value::as_u64 is Some(n); NonU64 is a number (negative or     *)
(* fractional) for which as_u64 is None.                                   *)
(***************************************************************************)
NonU64 == 0 - 1
JsonValues == (0..MaxCount) \cup {U64_MAX, NonU64}

FieldNames == {"count", "first_seen", "last_seen", "status", "note"}

\* str::contains on the property names used here
Substrings == [count      |-> {"count"},
               first_seen |-> {"first", "seen"},
               last_seen  |-> {"seen"},
               status     |-> {},
               note       |-> {}]
Contains(field, sub) == sub \in Substrings[field]

EmptyMap == [f \in {} |-> 0]
MapInsert(m, k, v) == [x \in (DOMAIN m) \cup {k} |-> IF x = k THEN v ELSE m[x]]

\* serde_json::Value restricted to objects of numbers and one non-object (null)
JsonObject(m) == [object |-> TRUE, map |-> m]
JsonNull == [object |-> FALSE, map |-> EmptyMap]

\* Value::as_u64().unwrap_or(0) of map.get(field)
AsU64OrZero(m, field) ==
    IF field \in DOMAIN m /\ m[field] >= 0 THEN m[field] ELSE 0

(***************************************************************************)
(* MergeStrategy, MergeRule, MergeConfig                                   *)
(***************************************************************************)
MergeStrategy == {"LastWriterWins", "MergeSightings", "Tombstone"}

MergeRuleNew(entity_type, strategy) ==
    [entity_type |-> entity_type, strategy |-> strategy,
     merge_fields |-> <<>>, lww_fields |-> <<>>]

\* MergeConfig::get_rule : configured rule, or a rule of the default strategy
GetRule(config, entity_type) ==
    IF entity_type \in DOMAIN config.rules
    THEN config.rules[entity_type]
    ELSE MergeRuleNew(entity_type, config.default_strategy)

(***************************************************************************)
(* VersionVector.  Origins are ordered as Rust orders the strings.         *)
(***************************************************************************)
Origins == <<"node1", "node2">>
OriginSet == {Origins[i] : i \in DOMAIN Origins}
OriginRank(o) == CHOOSE i \in DOMAIN Origins : Origins[i] = o

VersionVectorNew(origin, timestamp) ==
    [origin |-> origin, timestamp |-> timestamp, version |-> 0]

\* is_newer_than without the tie-break on the origin
IsNewerThanNoTieBreak(self, other) == self.timestamp > other.timestamp

IsNewerThan(self, other) ==
    IF self.timestamp # other.timestamp
    THEN self.timestamp > other.timestamp
    ELSE OriginRank(self.origin) > OriginRank(other.origin)

(***************************************************************************)
(* Result<EntityVersion>                                                   *)
(***************************************************************************)
Ok(v) == [ok |-> TRUE, val |-> v]
Err(msg) == [ok |-> FALSE, err |-> msg]
NotRun == Err("not run")

(***************************************************************************)
(* MergeResolver                                                           *)
(***************************************************************************)
\* merge_lww without its two tombstone checks
MergeLwwNoTombstone(local, remote) ==
    IF IsNewerThan(remote.version, local.version) THEN Ok(remote) ELSE Ok(local)

MergeLww(local, remote) ==
    IF remote.tombstone THEN Ok(remote)
    ELSE IF local.tombstone THEN Ok(local)
    ELSE IF IsNewerThan(remote.version, local.version) THEN Ok(remote)
    ELSE Ok(local)

MergeTombstone(local, remote) ==
    IF remote.tombstone /\ ~local.tombstone THEN Ok(remote)
    ELSE IF local.tombstone /\ ~remote.tombstone THEN Ok(local)
    ELSE IF remote.tombstone /\ local.tombstone
         THEN (IF IsNewerThan(remote.version, local.version)
               THEN Ok(remote) ELSE Ok(local))
    ELSE MergeLww(local, remote)

\* local_count + remote_count in a build without overflow checks
WrappingAdd(a, b) == (a + b) % (U64_MAX + 1)

\* some count field of the rule has a sum that does not fit in u64
CountOverflows(fields, merged_map, remote_map) ==
    \E i \in DOMAIN fields :
        /\ Contains(fields[i], "count")
        /\ AsU64OrZero(merged_map, fields[i])
             + AsU64OrZero(remote_map, fields[i]) > U64_MAX

\* the addition panics in a build with overflow checks
Panicked == Err("attempt to add with overflow")

\* the count loop adopting the remote count
RECURSIVE MergeCountFieldsRemote(_, _, _)
MergeCountFieldsRemote(fields, merged_map, remote_map) ==
    IF fields = <<>> THEN merged_map
    ELSE LET field == Head(fields)
             next == IF Contains(field, "count")
                     THEN MapInsert(merged_map, field, AsU64OrZero(remote_map, field))
                     ELSE merged_map
         IN MergeCountFieldsRemote(Tail(fields), next, remote_map)

\* first loop of merge_sightings: sum the fields whose name contains "count"
RECURSIVE MergeCountFields(_, _, _)
MergeCountFields(fields, merged_map, remote_map) ==
    IF fields = <<>> THEN merged_map
    ELSE LET field == Head(fields)
             next == IF Contains(field, "count")
                     THEN MapInsert(merged_map, field,
                                    WrappingAdd(AsU64OrZero(merged_map, field),
                                                AsU64OrZero(remote_map, field)))
                     ELSE merged_map
         IN MergeCountFields(Tail(fields), next, remote_map)

\* second loop: fields whose name contains "seen" or "timestamp"
RECURSIVE MergeTimestampFields(_, _, _)
MergeTimestampFields(fields, merged_map, remote_map) ==
    IF fields = <<>> THEN merged_map
    ELSE LET field == Head(fields)
             next ==
               IF (Contains(field, "seen") \/ Contains(field, "timestamp"))
                  /\ field \in DOMAIN remote_map
               THEN IF field \in DOMAIN merged_map
                    THEN IF merged_map[field] >= 0 /\ remote_map[field] >= 0
                         THEN IF Contains(field, "first")
                              THEN (IF remote_map[field] < merged_map[field]
                                    THEN MapInsert(merged_map, field, remote_map[field])
                                    ELSE merged_map)
                              ELSE (IF remote_map[field] > merged_map[field]
                                    THEN MapInsert(merged_map, field, remote_map[field])
                                    ELSE merged_map)
                         ELSE merged_map
                    ELSE MapInsert(merged_map, field, remote_map[field])
               ELSE merged_map
         IN MergeTimestampFields(Tail(fields), next, remote_map)

\* third loop: lww_fields follow the remote side when it is newer
RECURSIVE MergeLwwFields(_, _, _, _)
MergeLwwFields(fields, merged_map, remote_map, remote_newer) ==
    IF fields = <<>> THEN merged_map
    ELSE LET field == Head(fields)
             next == IF remote_newer /\ field \in DOMAIN remote_map
                     THEN MapInsert(merged_map, field, remote_map[field])
                     ELSE merged_map
         IN MergeLwwFields(Tail(fields), next, remote_map, remote_newer)

\* merge_sightings building the result on the remote props
MergeSightingsOnRemoteProps(local, remote, rule) ==
    IF remote.tombstone \/ local.tombstone THEN MergeTombstone(local, remote)
    ELSE Ok([entity_type |-> local.entity_type,
             key         |-> local.key,
             props       |-> remote.props,
             version     |-> IF IsNewerThan(remote.version, local.version)
                             THEN remote.version ELSE local.version,
             tombstone   |-> FALSE])

MergeSightings(local, remote, rule) ==
    IF remote.tombstone \/ local.tombstone THEN MergeTombstone(local, remote)
    ELSE IF /\ mOverflowChecks
            /\ local.props.object /\ remote.props.object
            /\ CountOverflows(rule.merge_fields, local.props.map, remote.props.map)
    THEN Panicked
    ELSE
      LET remote_newer == IsNewerThan(remote.version, local.version)
          merged_props ==
            IF local.props.object /\ remote.props.object
            THEN JsonObject(
                   MergeLwwFields(rule.lww_fields,
                     MergeTimestampFields(rule.merge_fields,
                       MergeCountFields(rule.merge_fields,
                                        local.props.map, remote.props.map),
                       remote.props.map),
                     remote.props.map, remote_newer))
            ELSE local.props
      IN Ok([entity_type |-> local.entity_type,
             key         |-> local.key,
             props       |-> merged_props,
             version     |-> IF remote_newer THEN remote.version ELSE local.version,
             tombstone   |-> FALSE])

Merge(config, local, remote) ==
    IF local.entity_type # remote.entity_type
    THEN Err("cannot merge entities of different types")
    ELSE IF local.key # remote.key
    THEN Err("cannot merge entities with different keys")
    ELSE LET rule == GetRule(config, local.entity_type)
         IN CASE rule.strategy = "LastWriterWins" -> MergeLww(local, remote)
              [] rule.strategy = "MergeSightings" -> MergeSightings(local, remote, rule)
              [] rule.strategy = "Tombstone"      -> MergeTombstone(local, remote)

(***************************************************************************)
(* Inputs of the merge specification                                       *)
(***************************************************************************)
SightingsRule ==
    [entity_type  |-> "Sighting", strategy |-> "MergeSightings",
     merge_fields |-> <<"count", "first_seen", "last_seen">>,
     lww_fields   |-> <<"status">>]

NoRules == [t \in {} |-> SightingsRule]

Configs ==
    {[rules |-> NoRules, default_strategy |-> "LastWriterWins"],
     [rules |-> NoRules, default_strategy |-> "Tombstone"],
     [rules |-> [t \in {"Sighting"} |-> SightingsRule],
      default_strategy |-> "LastWriterWins"]}

\* props: null, the empty object, or an object with one property
PropsSet ==
    {JsonNull, JsonObject(EmptyMap)}
    \cup {JsonObject([x \in {f} |-> v]) : f \in FieldNames, v \in JsonValues}

VersionVectors ==
    {VersionVectorNew(o, t) : o \in OriginSet, t \in 1..MaxTimestamp}

EntityVersions ==
    [entity_type : {"Sighting"}, key : {"ip:192.168.1.1"},
     props : PropsSet, version : VersionVectors, tombstone : BOOLEAN]

(***************************************************************************)
(* The components not taking part in a specification rest in these states. *)
(***************************************************************************)
NoMetrics == [persist_jobs_submitted |-> 0, persist_queue_length |-> 0,
              persist_batch_flushes |-> 0, persist_batch_failures |-> 0,
              persist_per_item_failures |-> 0]

Peers == {"peerA:8443", "peerB:8443"}

NoSyncMetrics ==
    [push_attempts |-> 0, push_successes |-> 0, push_failures |-> 0,
     pull_attempts |-> 0, pull_successes |-> 0, pull_failures |-> 0,
     entries_sent |-> 0, entries_received |-> 0,
     reconnections |-> 0, auth_failures |-> 0]

NoReply == [type |-> "None"]

\* SyncAgent::new : nothing pending, no watermark, all counters zero
SyncNew ==
    /\ pending = <<>>
    /\ lockHolder = "none"
    /\ nextEntry = 1
    /\ sPc = [p \in Peers |-> "idle"]
    /\ sent = [p \in Peers |-> <<>>]
    /\ sReply = [p \in Peers |-> NoReply]
    /\ peerGot = [p \in Peers |-> {}]
    /\ peerAcked = [p \in Peers |-> {}]
    /\ lastPull = EmptyMap
    /\ cycles = [p \in Peers |-> 0]
    /\ syncMetrics = NoSyncMetrics
    /\ wire = [p \in Peers |-> <<>>]
    /\ pushLog = <<>>

\* no connection
FrameIdle ==
    /\ fStream = <<>>
    /\ fOpen = FALSE
    /\ fSent = <<>>
    /\ fRecv = <<>>
    /\ fForeign = FALSE
    /\ fLast = [op |-> "none", ok |-> TRUE, len |-> 0]

\* OidcProvider.jwks before the first fetch (None), and after a fetch
NoJwks == [loaded |-> FALSE, keys |-> {}]

Loaded(keys) == [loaded |-> TRUE, keys |-> keys]

\* no validate_token call was made yet
NoCall == [op |-> "none", token |-> [header |-> FALSE, kid |-> "none", body |-> "none"],
           cached |-> NoJwks, served |-> {}, fetches |-> 0, result |-> "none"]

AuthIdle ==
    /\ jwks = NoJwks
    /\ served = {}
    /\ aLast = NoCall

\* the components added to the three first ones, all but one of them idle
NdjsonIdle ==
    /\ nBody = <<>>
    /\ nLimited = FALSE
    /\ nPos = 0
    /\ nBuf = <<>>
    /\ nRecords = <<>>
    /\ nPc = "ok"

\* no detection was run yet
NotDetected == [format |-> "none", compressed |-> FALSE]

DetectIdle ==
    /\ dPeek = <<>>
    /\ dHint = "none"
    /\ dFormat = NotDetected
    /\ dDump = NotDetected

CanonIdle ==
    /\ cPath = "ndjson:other"
    /\ cInput = <<>>
    /\ cStrictAscii = FALSE
    /\ cOnce = NotRun
    /\ cTwice = NotRun

\* the tasks that call the enrichment client
Tasks == {"t1", "t2"}

EnrichIdle ==
    /\ eMaxRetries = 0
    /\ cbState = "Closed"
    /\ cbOpenedAt = 0
    /\ cbFailures = 0
    /\ rlTokens = 0
    /\ rlLastRefill = 0
    /\ eNow = 0
    /\ ePc = [t \in Tasks |-> "idle"]
    /\ eAttempts = [t \in Tasks |-> 0]
    /\ eTrace = [t \in Tasks |-> <<>>]
    /\ eResult = [t \in Tasks |-> "none"]
    /\ eCalls = 0
    /\ eSinceSuccess = 0

\* the connections the accept loop may take
Conns == {"c1", "c2"}

LimitIdle ==
    /\ limBurst = 0
    /\ limRps = 0
    /\ limOpen = {}
    /\ limTokens = [c \in Conns |-> 0]
    /\ limLastRefill = [c \in Conns |-> 0]
    /\ limNow = 0
    /\ limInner = 0
    /\ limDenied = 0

\* the tasks that call the OidcProvider, and its two locks
OidcTasks == {"a", "b", "c"}
Locks == {"discovery_doc", "jwks"}

OidcIdle ==
    /\ oPc = [t \in OidcTasks |-> "idle"]
    /\ oHeld = [l \in Locks |-> {}]
    /\ oQueue = [l \in Locks |-> <<>>]
    /\ oDoc = FALSE
    /\ oKeys = FALSE
    /\ oCalls = 0

AgeIdle ==
    /\ pStore = "AgeRepo"

ExtrasIdleExcept(component) ==
    /\ IF component = "frame" THEN TRUE ELSE FrameIdle
    /\ IF component = "auth" THEN TRUE ELSE AuthIdle
    /\ IF component = "ndjson" THEN TRUE ELSE NdjsonIdle
    /\ IF component = "detect" THEN TRUE ELSE DetectIdle
    /\ IF component = "canon" THEN TRUE ELSE CanonIdle
    /\ IF component = "enrich" THEN TRUE ELSE EnrichIdle
    /\ IF component = "limit" THEN TRUE ELSE LimitIdle
    /\ IF component = "oidc" THEN TRUE ELSE OidcIdle
    /\ IF component = "age" THEN TRUE ELSE AgeIdle

ExtrasIdle == ExtrasIdleExcept("none")

MergeIdle ==
    /\ mConfig = [rules |-> NoRules, default_strategy |-> "LastWriterWins"]
    /\ mLocal = [entity_type |-> "Sighting", key |-> "ip:192.168.1.1",
                 props |-> JsonNull, version |-> VersionVectorNew("node1", 1),
                 tombstone |-> FALSE]
    /\ mRemote = [entity_type |-> "Sighting", key |-> "ip:192.168.1.1",
                  props |-> JsonNull, version |-> VersionVectorNew("node1", 1),
                  tombstone |-> FALSE]
    /\ mPc = "done"
    /\ mAB = NotRun
    /\ mOp = "none"
    /\ mOut = NotRun
    /\ mOverflowChecks = FALSE

PersistIdle ==
    /\ pRecords = <<>>
    /\ pPath = "ndjson"
    /\ pCap = 1
    /\ pBatch = 1
    /\ hPc = "done"
    /\ hIdx = 1
    /\ hAttempts = 0
    /\ channel = <<>>
    /\ sendersAlive = FALSE
    /\ wPc = "terminated"
    /\ buffer = <<>>
    /\ wJobs = <<>>
    /\ wDraining = FALSE
    /\ graph = EmptyMap
    /\ calls = <<>>
    /\ accepted = {}
    /\ metrics = NoMetrics
    /\ wSleep = 0
    /\ bufAge = 0

(***************************************************************************)
(* SpecMerge: the resolver applied to a and b, then a second merge         *)
(***************************************************************************)
InitMerge ==
    /\ mConfig \in Configs
    /\ mLocal \in EntityVersions
    /\ mRemote \in EntityVersions
    /\ mPc = "start"
    /\ mAB = NotRun
    /\ mOp = "none"
    /\ mOut = NotRun
    /\ mOverflowChecks \in BOOLEAN
    /\ PersistIdle
    /\ SyncNew
    /\ ExtrasIdle

\* merged = resolver.merge(&a, &b)
MergeAB ==
    /\ mPc = "start"
    /\ mAB' = Merge(mConfig, mLocal, mRemote)
    /\ mPc' = "merged"
    /\ UNCHANGED <<mConfig, mLocal, mRemote, mOp, mOut, mOverflowChecks, notMerge>>

\* resolver.merge(&b, &a): the same pair in the other argument order
MergeBA ==
    /\ mPc = "merged"
    /\ mOut' = Merge(mConfig, mRemote, mLocal)
    /\ mOp' = "b_a"
    /\ mPc' = "done"
    /\ UNCHANGED <<mConfig, mLocal, mRemote, mAB, mOverflowChecks, notMerge>>

\* resolver.merge(&a, &merged): a merged again with a result that contains it
MergeAIntoAB ==
    /\ mPc = "merged"
    /\ mAB.ok
    /\ mOut' = Merge(mConfig, mLocal, mAB.val)
    /\ mOp' = "a_ab"
    /\ mPc' = "done"
    /\ UNCHANGED <<mConfig, mLocal, mRemote, mAB, mOverflowChecks, notMerge>>

\* resolver.merge(&merged, &b): the remote entry applied a second time
MergeABWithB ==
    /\ mPc = "merged"
    /\ mAB.ok
    /\ mOut' = Merge(mConfig, mAB.val, mRemote)
    /\ mOp' = "ab_b"
    /\ mPc' = "done"
    /\ UNCHANGED <<mConfig, mLocal, mRemote, mAB, mOverflowChecks, notMerge>>

\* resolver.merge(&b, &merged): the merged entity arrives at b's site
MergeBIntoAB ==
    /\ mPc = "merged"
    /\ mAB.ok
    /\ mOut' = Merge(mConfig, mRemote, mAB.val)
    /\ mOp' = "b_ab"
    /\ mPc' = "done"
    /\ UNCHANGED <<mConfig, mLocal, mRemote, mAB, mOverflowChecks, notMerge>>

NextMerge == MergeAB \/ MergeBA \/ MergeAIntoAB \/ MergeABWithB \/ MergeBIntoAB

SpecMerge == InitMerge /\ [][NextMerge]_vars

(***************************************************************************)
(* Properties of the merge resolver (checked under SpecMerge)              *)
(***************************************************************************)
Strategy == GetRule(mConfig, mLocal.entity_type).strategy
CountFieldsOfRule ==
    LET rule == GetRule(mConfig, mLocal.entity_type)
    IN {rule.merge_fields[i] : i \in DOMAIN rule.merge_fields}
       \cap {f \in FieldNames : Contains(f, "count")}

\* C1: merge(a, merge(a, b)) = merge(a, b) for every rule, count fields
\* included: merging a again into a result that contains it changes nothing.
C1_MergeConvergence ==
    (mPc = "done" /\ mOp = "a_ab") => mOut = mAB

\* C2: under a pure LastWriterWins or a pure Tombstone rule
\* merge(a, b) = merge(b, a) for all pairs with the same (entity_type, key).
C2_LwwTombstoneCommutative ==
    (mPc = "done" /\ mOp = "b_a" /\ Strategy \in {"LastWriterWins", "Tombstone"})
        => mOut = mAB

\* C3 (as stated): under MergeSightings, for every remote version, tombstoned
\* or not, every count field of the result is >= its value in the local
\* version before the merge (counts read as as_u64 reads them).
C3_CountMonotoneAnyRemote ==
    (mPc # "start" /\ Strategy = "MergeSightings" /\ mAB.ok)
        => \A f \in CountFieldsOfRule \cap DOMAIN mAB.val.props.map :
              AsU64OrZero(mAB.val.props.map, f) >= AsU64OrZero(mLocal.props.map, f)

\* C3 (amended): under MergeSightings, for every remote version that is not
\* tombstoned, every count field of the result is >= its value (as u64) in
\* the local version before the merge.
C3_CountMonotoneLiveRemote ==
    (mPc # "start" /\ Strategy = "MergeSightings" /\ ~mRemote.tombstone /\ mAB.ok)
        => \A f \in CountFieldsOfRule \cap DOMAIN mAB.val.props.map :
              AsU64OrZero(mAB.val.props.map, f) >= AsU64OrZero(mLocal.props.map, f)

\* C3 witness: two live sides with positive counts were merged and the
\* result's count is the larger sum.
C3_Witness ==
    /\ mPc = "merged" /\ Strategy = "MergeSightings"
    /\ ~mLocal.tombstone /\ ~mRemote.tombstone
    /\ mLocal.props.object /\ mRemote.props.object
    /\ AsU64OrZero(mLocal.props.map, "count") = 1
    /\ AsU64OrZero(mRemote.props.map, "count") = 1
    /\ mAB.ok /\ mAB.val.props.map["count"] = 2

\* a tombstone on one side, and on the other a live version that is equal or
\* older under the VersionVector order
TombstoneMeetsOlderLive ==
    \/ /\ mLocal.tombstone /\ ~mRemote.tombstone
       /\ ~IsNewerThan(mRemote.version, mLocal.version)
    \/ /\ mRemote.tombstone /\ ~mLocal.tombstone
       /\ ~IsNewerThan(mLocal.version, mRemote.version)

\* C4: tombstone absorption: a tombstone merged, as local or as remote and
\* under every strategy, with a live version of equal or older version
\* yields a tombstone, and so does every further merge of that result with
\* the live version.
C4_TombstoneAbsorption ==
    TombstoneMeetsOlderLive =>
        /\ mPc # "start" => (mAB.ok /\ mAB.val.tombstone)
        /\ mPc = "done" => (mOut.ok /\ mOut.val.tombstone)

\* C4 witness: a remote tombstone absorbed a live local of equal version
\* under MergeSightings and the live version was merged into it once more.
C4_Witness ==
    /\ mPc = "done" /\ mOp = "a_ab" /\ Strategy = "MergeSightings"
    /\ mRemote.tombstone /\ ~mLocal.tombstone
    /\ mLocal.version = mRemote.version
    /\ mOut.ok /\ mOut.val.tombstone

\* C5: pull is idempotent: merge(merge(l, r), r) = merge(l, r) for every
\* rule, so applying the same remote entry twice changes nothing.
C5_PullIdempotent ==
    (mPc = "done" /\ mOp = "ab_b") => mOut = mAB

(***************************************************************************)
(* Ingest handlers and the persistence batcher                             *)
(*   src/ingest/handler.rs : ndjson_upload, multipart_upload and the       *)
(*                           background task of bulk_dump_upload           *)
(*   src/persist/mod.rs    : submit_job, start_batcher, flush_buffer       *)
(*   src/age_client.rs     : AgeRepo (merge_entity, merge_batch)           *)
(***************************************************************************)
MaxRecords == 2        \* records per request
MaxCapacity == 1       \* channel_capacity ranges over 1..MaxCapacity
MaxBatch == 2          \* batch_size ranges over 1..MaxBatch
MaxAttempts == 5       \* the bulk task gives up once attempts > 5

\* NormalizedRecord: canonical is the key, field_type the only property stored.
\* One canonical value can be seen under two field types.
RecordKinds ==
    {[canonical |-> "example.com", field_type |-> "domain"],
     [canonical |-> "example.com", field_type |-> "other"],
     [canonical |-> "10.0.0.1",    field_type |-> "ip"]}

\* PersistJob built by the handlers from record i of the request
Job(i) == [label |-> "FieldValue",
           key   |-> pRecords[i].canonical,
           props |-> [x \in {"field_type"} |-> pRecords[i].field_type]]

\* MERGE (n:label {canonical_key: key}) SET n += props
GraphUpsert(g, job) ==
    [k \in (DOMAIN g) \cup {job.key} |->
        IF k = job.key
        THEN IF k \in DOMAIN g
             THEN [x \in (DOMAIN g[k]) \cup (DOMAIN job.props) |->
                     IF x \in DOMAIN job.props THEN job.props[x] ELSE g[k][x]]
             ELSE job.props
        ELSE g[k]]

\* the statements of one batch, executed in order
RECURSIVE GraphUpsertAll(_, _)
GraphUpsertAll(g, jobs) ==
    IF jobs = <<>> THEN g
    ELSE GraphUpsertAll(GraphUpsert(g, Job(Head(jobs))), Tail(jobs))

\* the receiver half exists as long as the worker task runs
ReceiverAlive == wPc \in {"select", "fallback"}

Bump(m, counter) == [m EXCEPT ![counter] = @ + 1]

AfterRecord(i) == IF i >= Len(pRecords) THEN "done" ELSE "submit"

\* the handler and the worker before the first submit
PersistStart ==
    /\ pRecords \in UNION {[1..n -> RecordKinds] : n \in 1..MaxRecords}
    /\ pPath \in {"ndjson", "multipart", "bulk"}
    /\ pCap \in 1..MaxCapacity
    /\ pBatch \in 1..MaxBatch
    /\ hPc = "submit"
    /\ hIdx = 1
    /\ hAttempts = 0
    /\ channel = <<>>
    /\ sendersAlive = TRUE
    /\ wPc = "select"
    /\ buffer = <<>>
    /\ wJobs = <<>>
    /\ wDraining = FALSE
    /\ graph = EmptyMap
    /\ calls = <<>>
    /\ accepted = {}
    /\ metrics = NoMetrics
    /\ wSleep = 0
    /\ bufAge = 0

InitPersist ==
    /\ PersistStart
    /\ MergeIdle
    /\ SyncNew
    /\ ExtrasIdle

\* the batcher started over the production store
InitPersistAge ==
    /\ PersistStart
    /\ MergeIdle
    /\ SyncNew
    /\ ExtrasIdleExcept("age")
    /\ pStore = "AgeClient"

(***************************************************************************)
(* Handlers                                                                *)
(***************************************************************************)
\* ndjson_upload / multipart_upload: submit_job for the next record; Ok goes
\* on to the next record, Full and Closed hand the job back for the upsert
HandlerSubmit ==
    /\ pPath \in {"ndjson", "multipart"}
    /\ hPc = "submit"
    /\ metrics' = Bump(Bump(metrics, "persist_jobs_submitted"), "persist_queue_length")
    /\ IF ReceiverAlive /\ Len(channel) < pCap
       THEN /\ channel' = Append(channel, hIdx)
            /\ accepted' = accepted \cup {hIdx}
            /\ hIdx' = hIdx + 1
            /\ hPc' = AfterRecord(hIdx)
       ELSE /\ hPc' = "upsert"
            /\ UNCHANGED <<channel, accepted, hIdx>>
    /\ UNCHANGED <<pRecords, pPath, pCap, pBatch, hAttempts, sendersAlive, wPc,
                   buffer, wJobs, wDraining, graph, calls, wSleep, bufAge,
                   notPersist>>

\* the upsert of the fallback arm left out: the handler just moves on
HandlerSyncUpsertSkipped ==
    /\ hPc = "upsert"
    /\ hIdx' = hIdx + 1
    /\ hPc' = AfterRecord(hIdx)
    /\ UNCHANGED <<pRecords, pPath, pCap, pBatch, hAttempts, channel, sendersAlive,
                   wPc, buffer, wJobs, wDraining, graph, calls, accepted, metrics,
                   wSleep, bufAge,
                   notPersist>>

\* the fallback arm: state.repo.merge_entity(returned) awaited by the handler;
\* an error answers 500 and ends the request
HandlerSyncUpsert ==
    /\ hPc = "upsert"
    /\ \E ok \in BOOLEAN :
        /\ calls' = Append(calls, [op |-> "merge_entity", by |-> "handler",
                                   items |-> <<hIdx>>, ok |-> ok])
        /\ graph' = IF ok THEN GraphUpsert(graph, Job(hIdx)) ELSE graph
        /\ hIdx' = IF ok THEN hIdx + 1 ELSE hIdx
        /\ hPc' = IF ok THEN AfterRecord(hIdx) ELSE "error500"
    /\ UNCHANGED <<pRecords, pPath, pCap, pBatch, hAttempts, channel, sendersAlive,
                   wPc, buffer, wJobs, wDraining, accepted, metrics, wSleep, bufAge,
                   notPersist>>

\* background task of bulk_dump_upload: one submit_job attempt for the current
\* job; Full is retried after a sleep until attempts > 5, then the job is
\* dropped; Closed drops the job at once
BulkSubmit ==
    /\ pPath = "bulk"
    /\ hPc = "submit"
    /\ metrics' = Bump(Bump(metrics, "persist_jobs_submitted"), "persist_queue_length")
    /\ IF ReceiverAlive /\ Len(channel) < pCap
       THEN /\ channel' = Append(channel, hIdx)
            /\ accepted' = accepted \cup {hIdx}
            /\ hIdx' = hIdx + 1
            /\ hAttempts' = 0
            /\ hPc' = AfterRecord(hIdx)
       ELSE IF ReceiverAlive /\ hAttempts + 1 <= MaxAttempts
       THEN /\ hAttempts' = hAttempts + 1
            /\ UNCHANGED <<channel, accepted, hIdx, hPc>>
       ELSE /\ hIdx' = hIdx + 1
            /\ hAttempts' = 0
            /\ hPc' = AfterRecord(hIdx)
            /\ UNCHANGED <<channel, accepted>>
    /\ UNCHANGED <<pRecords, pPath, pCap, pBatch, sendersAlive, wPc, buffer,
                   wJobs, wDraining, graph, calls, wSleep, bufAge,
                   notPersist>>

\* the request is over and the application shuts down: every sender is dropped
DropSenders ==
    /\ sendersAlive
    /\ hPc \in {"done", "error500"}
    /\ sendersAlive' = FALSE
    /\ UNCHANGED <<pRecords, pPath, pCap, pBatch, hPc, hIdx, hAttempts, channel,
                   wPc, buffer, wJobs, wDraining, graph, calls, accepted, metrics,
                   wSleep, bufAge,
                   notPersist>>

(***************************************************************************)
(* Batcher worker                                                          *)
(***************************************************************************)
\* the jobs of a batch that are not in the set `failed`, in order
RECURSIVE Without(_, _)
Without(jobs, failed) ==
    IF jobs = <<>> THEN <<>>
    ELSE IF Head(jobs) \in failed THEN Without(Tail(jobs), failed)
    ELSE <<Head(jobs)>> \o Without(Tail(jobs), failed)

\* AgeClient::merge_batch as flush_buffer sees it: one batched query; when it
\* fails, merge_entity for every item, errors printed, and Ok(()) returned
AgeClientFlush(jobs, draining, m) ==
    \E sqlOk \in BOOLEAN, failed \in SUBSET {jobs[n] : n \in DOMAIN jobs} :
        /\ sqlOk => failed = {}
        /\ calls' = calls
                \o <<[op |-> "merge_batch", by |-> "worker", items |-> jobs,
                      ok |-> TRUE],
                     [op |-> "batch_query", by |-> "age_client", items |-> jobs,
                      ok |-> sqlOk]>>
                \o (IF sqlOk THEN <<>>
                    ELSE [n \in 1..Len(jobs) |->
                            [op |-> "merge_entity", by |-> "age_client",
                             items |-> <<jobs[n]>>, ok |-> jobs[n] \notin failed]])
        /\ graph' = GraphUpsertAll(graph, Without(jobs, failed))
        /\ metrics' = Bump(m, "persist_batch_flushes")
        /\ buffer' = <<>>
        /\ wSleep' = 0
        /\ bufAge' = 0
        /\ wJobs' = <<>>
        /\ wDraining' = draining
        /\ wPc' = IF draining THEN "terminated" ELSE "select"

\* flush_buffer(jobs) over a repo that reports its errors
RepoFlush(jobs, draining, m) ==
    \E ok \in BOOLEAN :
        /\ calls' = Append(calls, [op |-> "merge_batch", by |-> "worker",
                                   items |-> jobs, ok |-> ok])
        /\ graph' = IF ok THEN GraphUpsertAll(graph, jobs) ELSE graph
        /\ metrics' = IF ok THEN Bump(m, "persist_batch_flushes")
                      ELSE Bump(Bump(m, "persist_batch_flushes"),
                                "persist_batch_failures")
        /\ buffer' = <<>>
        /\ wSleep' = 0
        /\ bufAge' = 0
        /\ wJobs' = IF ok THEN <<>> ELSE jobs
        /\ wDraining' = draining
        /\ wPc' = IF ~ok THEN "fallback"
                  ELSE IF draining THEN "terminated" ELSE "select"

\* flush_buffer(jobs): one merge_batch call; on Err the jobs are kept for the
\* per-item retries
FlushBuffer(jobs, draining, m) ==
    IF pStore = "AgeClient"
    THEN AgeClientFlush(jobs, draining, m)
    ELSE RepoFlush(jobs, draining, m)

\* a received job put in front of the jobs already buffered
BufferPushFront(buf, job) == <<job>> \o buf

\* buffer.push(job)
BufferPush(buf, job) == Append(buf, job)

\* the flush started only when the buffer has grown past batch_size
WorkerRecvLateFlush ==
    /\ wPc = "select"
    /\ channel # <<>>
    /\ channel' = Tail(channel)
    /\ LET m == [metrics EXCEPT !.persist_queue_length = @ - 1]
           buf == BufferPush(buffer, Head(channel))
       IN IF Len(buf) > pBatch
          THEN FlushBuffer(buf, FALSE, m)
          ELSE /\ buffer' = buf
               /\ metrics' = m
               /\ wSleep' = 0
               /\ bufAge' = IF buffer = <<>> THEN 0 ELSE bufAge
               /\ UNCHANGED <<wPc, wJobs, wDraining, graph, calls>>
    /\ UNCHANGED <<pRecords, pPath, pCap, pBatch, hPc, hIdx, hAttempts,
                   sendersAlive, accepted, notPersist>>

\* rx.recv() yields Some(job): gauge down, push, flush when the batch is full
WorkerRecv ==
    /\ wPc = "select"
    /\ channel # <<>>
    /\ channel' = Tail(channel)
    /\ LET m == [metrics EXCEPT !.persist_queue_length = @ - 1]
           buf == BufferPush(buffer, Head(channel))
       IN IF Len(buf) >= pBatch
          THEN FlushBuffer(buf, FALSE, m)
          ELSE /\ buffer' = buf
               /\ metrics' = m
               /\ wSleep' = 0
               /\ bufAge' = IF buffer = <<>> THEN 0 ELSE bufAge
               /\ UNCHANGED <<wPc, wJobs, wDraining, graph, calls>>
    /\ UNCHANGED <<pRecords, pPath, pCap, pBatch, hPc, hIdx, hAttempts,
                   sendersAlive, accepted, notPersist>>

\* the sleep branch of the select: no job arrived for flush_interval
WorkerTimer ==
    /\ wPc = "select"
    /\ channel = <<>>
    /\ sendersAlive
    /\ buffer # <<>>
    /\ FlushBuffer(buffer, FALSE, metrics)
    /\ UNCHANGED <<pRecords, pPath, pCap, pBatch, hPc, hIdx, hAttempts, channel,
                   sendersAlive, accepted, notPersist>>

\* the None arm with the final flush left out
WorkerClosedNoFlush ==
    /\ wPc = "select"
    /\ channel = <<>>
    /\ ~sendersAlive
    /\ wPc' = "terminated"
    /\ buffer' = <<>>
    /\ UNCHANGED <<pRecords, pPath, pCap, pBatch, hPc, hIdx, hAttempts, channel,
                   sendersAlive, wJobs, wDraining, graph, calls, accepted, metrics,
                   wSleep, bufAge,
                   notPersist>>

\* the None arm taken as soon as the channel is empty, senders alive or not
WorkerClosedEarly ==
    /\ wPc = "select"
    /\ channel = <<>>
    /\ IF buffer # <<>>
       THEN FlushBuffer(buffer, TRUE, metrics)
       ELSE /\ wPc' = "terminated"
            /\ UNCHANGED <<buffer, wJobs, wDraining, graph, calls, metrics,
                           wSleep, bufAge>>
    /\ UNCHANGED <<pRecords, pPath, pCap, pBatch, hPc, hIdx, hAttempts, channel,
                   sendersAlive, accepted, notPersist>>

\* rx.recv() yields None (no sender left, channel empty): final flush, break
WorkerClosed ==
    /\ wPc = "select"
    /\ channel = <<>>
    /\ ~sendersAlive
    /\ IF buffer # <<>>
       THEN FlushBuffer(buffer, TRUE, metrics)
       ELSE /\ wPc' = "terminated"
            /\ UNCHANGED <<buffer, wJobs, wDraining, graph, calls, metrics,
                           wSleep, bufAge>>
    /\ UNCHANGED <<pRecords, pPath, pCap, pBatch, hPc, hIdx, hAttempts, channel,
                   sendersAlive, accepted, notPersist>>

\* the per-item loop given up at the first failing merge_entity
WorkerFallbackItemStopOnError ==
    /\ wPc = "fallback"
    /\ wJobs # <<>>
    /\ \E ok \in BOOLEAN :
        /\ calls' = Append(calls, [op |-> "merge_entity", by |-> "worker",
                                   items |-> <<Head(wJobs)>>, ok |-> ok])
        /\ graph' = IF ok THEN GraphUpsert(graph, Job(Head(wJobs))) ELSE graph
        /\ metrics' = IF ok THEN metrics
                      ELSE Bump(metrics, "persist_per_item_failures")
        /\ wJobs' = IF ok THEN Tail(wJobs) ELSE <<>>
        /\ wPc' = IF ok /\ Tail(wJobs) # <<>> THEN "fallback"
                  ELSE IF wDraining THEN "terminated" ELSE "select"
    /\ UNCHANGED <<pRecords, pPath, pCap, pBatch, hPc, hIdx, hAttempts, channel,
                   sendersAlive, buffer, wDraining, accepted, wSleep, bufAge,
                   notPersist>>

\* per-item loop of flush_buffer after a failed batch: merge_entity for the
\* next job; a failure is counted and the loop goes on
WorkerFallbackItem ==
    /\ wPc = "fallback"
    /\ wJobs # <<>>
    /\ \E ok \in BOOLEAN :
        /\ calls' = Append(calls, [op |-> "merge_entity", by |-> "worker",
                                   items |-> <<Head(wJobs)>>, ok |-> ok])
        /\ graph' = IF ok THEN GraphUpsert(graph, Job(Head(wJobs))) ELSE graph
        /\ metrics' = IF ok THEN metrics
                      ELSE Bump(metrics, "persist_per_item_failures")
    /\ wJobs' = Tail(wJobs)
    /\ wPc' = IF Tail(wJobs) # <<>> THEN "fallback"
              ELSE IF wDraining THEN "terminated" ELSE "select"
    /\ UNCHANGED <<pRecords, pPath, pCap, pBatch, hPc, hIdx, hAttempts, channel,
                   sendersAlive, buffer, wDraining, accepted, wSleep, bufAge,
                   notPersist>>

\* the worker task ends without draining (a panic inside a repo call): the
\* receiver is dropped with whatever the channel and the buffer hold
WorkerAborted ==
    /\ wPc \in {"select", "fallback"}
    /\ sendersAlive
    /\ wPc' = "aborted"
    /\ channel' = <<>>
    /\ buffer' = <<>>
    /\ wJobs' = <<>>
    /\ wSleep' = 0
    /\ bufAge' = 0
    /\ UNCHANGED <<pRecords, pPath, pCap, pBatch, hPc, hIdx, hAttempts,
                   sendersAlive, wDraining, graph, calls, accepted, metrics,
                   notPersist>>

NextPersist ==
    \/ HandlerSubmit \/ HandlerSyncUpsert \/ BulkSubmit \/ DropSenders
    \/ WorkerRecv \/ WorkerTimer \/ WorkerClosed \/ WorkerFallbackItem
    \/ WorkerAborted

SpecPersist == InitPersist /\ [][NextPersist]_vars

(***************************************************************************)
(* Properties of the handlers and the batcher (checked under SpecPersist)  *)
(***************************************************************************)
ItemsOf(call) == {call.items[n] : n \in DOMAIN call.items}

\* the store received job i in some merge_batch or merge_entity call
StoreReceived(i) == \E n \in DOMAIN calls : i \in ItemsOf(calls[n])

\* the handler itself upserted job i
HandlerUpserted(i) ==
    \E n \in DOMAIN calls : calls[n].by = "handler" /\ i \in ItemsOf(calls[n])

AllStoreCallsOk == \A n \in DOMAIN calls : calls[n].ok

\* the request was processed to its end and the batcher has drained
Finished == hPc = "done" /\ wPc = "terminated"

\* the graph after the jobs of the request were upserted in request order
InOrderGraph == GraphUpsertAll(EmptyMap, [i \in 1..Len(pRecords) |-> i])

NoConflictingJobs ==
    \A i, j \in 1..Len(pRecords) :
        pRecords[i].canonical = pRecords[j].canonical
            => pRecords[i].field_type = pRecords[j].field_type

\* C6: at-least-once persistence: once all senders are dropped and the worker
\* has terminated, every job for which submit_job returned Ok was passed to
\* the store in at least one merge_batch or merge_entity call.
C6_AtLeastOnce ==
    wPc = "terminated" => \A i \in accepted : StoreReceived(i)

\* C6 witness: the worker terminated after two accepted jobs, one of them
\* left in the buffer until the final flush.
C6_Witness ==
    /\ wPc = "terminated" /\ accepted = {1, 2} /\ wDraining
    /\ StoreReceived(1) /\ StoreReceived(2)

C8_NoRecordDropped ==
    hPc = "done" =>
        \A i \in 1..Len(pRecords) : i \in accepted \/ HandlerUpserted(i)

(***************************************************************************)
(* Replication agent (src/sync/agent.rs)                                   *)
(*   one sync_loop task per configured peer, all sharing pending_entries   *)
(*   and last_pull_timestamps; the peers' replies are the environment      *)
(***************************************************************************)
MaxEntries == 2        \* entries enqueue_change adds in a run
MaxCycles == 2         \* sync cycles started in a run, all peers together
MaxPull == 1           \* entries in one PullResponse

SeqToSet(q) == {q[n] : n \in DOMAIN q}

\* replies a peer (or the transport) can give to a Push of `count` entries
PushReplies(count) ==
    {[type |-> "PushAck", count |-> n] : n \in 0..(count + 1)}
    \cup {[type |-> "Error"], [type |-> "Pong"], [type |-> "IoError"]}

\* replies to a Pull: the timestamps of the entries of the PullResponse
PullReplies ==
    {[type |-> "PullResponse", entries |-> es] :
        es \in UNION {[1..n -> 1..MaxTimestamp] : n \in 0..MaxPull}}
    \cup {[type |-> "Error"], [type |-> "Pong"], [type |-> "IoError"]}

Add(m, counter, n) == [m EXCEPT ![counter] = @ + n]

\* sync cycles started so far by all the sync_loop tasks
RECURSIVE CyclesOf(_)
CyclesOf(ps) ==
    IF ps = {} THEN 0
    ELSE LET p == CHOOSE x \in ps : TRUE
         IN cycles[p] + CyclesOf(ps \ {p})

\* a failed cycle left uncounted
CycleFailedUncounted(m) == m

\* sync_loop: Err(e) of the cycle is counted, the loop sleeps and goes on
CycleFailed(m) == Add(m, "reconnections", 1)

InitSync ==
    /\ SyncNew
    /\ MergeIdle
    /\ PersistIdle
    /\ ExtrasIdle

\* the new entry put in front of the entries already pending
EnqueueChangeFront ==
    /\ nextEntry <= MaxEntries
    /\ lockHolder = "none"
    /\ pending' = <<nextEntry>> \o pending
    /\ nextEntry' = nextEntry + 1
    /\ UNCHANGED <<lockHolder, sPc, sent, sReply, peerGot, peerAcked, lastPull,
                   cycles, syncMetrics, wire, pushLog, notSync>>

\* enqueue_change pushing without waiting for the lock
EnqueueChangeUnlocked ==
    /\ nextEntry <= MaxEntries
    /\ pending' = Append(pending, nextEntry)
    /\ nextEntry' = nextEntry + 1
    /\ UNCHANGED <<lockHolder, sPc, sent, sReply, peerGot, peerAcked, lastPull,
                   cycles, syncMetrics, wire, pushLog, notSync>>

\* enqueue_change: take the write lock, push the entry
EnqueueChange ==
    /\ nextEntry <= MaxEntries
    /\ lockHolder = "none"
    /\ pending' = Append(pending, nextEntry)
    /\ nextEntry' = nextEntry + 1
    /\ UNCHANGED <<lockHolder, sPc, sent, sReply, peerGot, peerAcked, lastPull,
                   cycles, syncMetrics, wire, pushLog, notSync>>

\* sync_loop tick and connect_tls
ConnectTls(p) ==
    /\ sPc[p] = "idle"
    /\ CyclesOf(Peers) < MaxCycles
    /\ cycles' = [cycles EXCEPT ![p] = @ + 1]
    /\ \E ok \in BOOLEAN :
        /\ sPc' = [sPc EXCEPT ![p] = IF ok THEN "auth" ELSE "idle"]
        /\ syncMetrics' = IF ok THEN syncMetrics ELSE CycleFailed(syncMetrics)
        /\ wire' = [wire EXCEPT ![p] = IF ok THEN <<>> ELSE <<"IoError">>]
    /\ UNCHANGED <<pending, lockHolder, nextEntry, sent, sReply, peerGot,
                   peerAcked, lastPull, pushLog, notSync>>

\* authenticate: token, Auth frame, reply
Authenticate(p) ==
    /\ sPc[p] = "auth"
    /\ \E reply \in {"AuthOk", "AuthFailed", "Pong", "IoError"} :
        /\ sPc' = [sPc EXCEPT ![p] = IF reply = "AuthOk" THEN "push" ELSE "idle"]
        /\ syncMetrics' =
             CASE reply = "AuthOk"  -> syncMetrics
               [] reply = "IoError" -> CycleFailed(syncMetrics)
               [] OTHER -> CycleFailed(Add(syncMetrics, "auth_failures", 1))
        /\ wire' = [wire EXCEPT ![p] = <<"Auth", reply>>]
    /\ UNCHANGED <<pending, lockHolder, nextEntry, sent, sReply, peerGot,
                   peerAcked, lastPull, cycles, pushLog, notSync>>

\* push_changes entry: the attempt is counted, then the task waits for the
\* write lock on pending_entries
PushChanges(p) ==
    /\ sPc[p] = "push"
    /\ sPc' = [sPc EXCEPT ![p] = "push_lock"]
    /\ syncMetrics' = Add(syncMetrics, "push_attempts", 1)
    /\ UNCHANGED <<pending, lockHolder, nextEntry, sent, sReply, peerGot,
                   peerAcked, lastPull, cycles, wire, pushLog, notSync>>

\* push_changes up to the wait for the reply: write lock, snapshot, Push frame
PushSend(p) ==
    /\ sPc[p] = "push_lock"
    /\ lockHolder = "none"
    /\ IF pending = <<>>
       THEN /\ sPc' = [sPc EXCEPT ![p] = "pull"]
            /\ UNCHANGED <<lockHolder, sent, peerGot, syncMetrics, wire,
                           pushLog>>
       ELSE \E sendOk \in BOOLEAN :
            IF sendOk
            THEN /\ sent' = [sent EXCEPT ![p] = pending]
                 /\ peerGot' = [peerGot EXCEPT ![p] = @ \cup SeqToSet(pending)]
                 /\ lockHolder' = p
                 /\ sPc' = [sPc EXCEPT ![p] = "push_wait"]
                 /\ wire' = [wire EXCEPT ![p] = Append(@, "Push")]
                 /\ pushLog' = Append(pushLog, pending)
                 /\ UNCHANGED syncMetrics
            ELSE /\ sPc' = [sPc EXCEPT ![p] = "idle"]
                 /\ syncMetrics' = CycleFailed(syncMetrics)
                 /\ wire' = [wire EXCEPT ![p] = Append(@, "IoError")]
                 /\ UNCHANGED <<lockHolder, sent, peerGot, pushLog>>
    /\ UNCHANGED <<pending, nextEntry, sReply, peerAcked, lastPull, cycles, notSync>>

\* what the reply to a Push does to the pending set
PendingAfterDrainAcked(pend, snapshot, reply) ==
    IF reply.type = "PushAck"
    THEN SubSeq(pend, reply.count + 1, Len(pend))
    ELSE pend

PendingAfter(pend, snapshot, reply) ==
    IF reply.type = "PushAck" /\ reply.count = Len(snapshot)
    THEN <<>>
    ELSE pend

\* push_changes from the reply on; the write guard is dropped on return
PushReply(p) ==
    /\ sPc[p] = "push_wait"
    /\ \E reply \in PushReplies(Len(sent[p])) :
        LET acked == reply.type = "PushAck" /\ reply.count = Len(sent[p])
        IN /\ sReply' = [sReply EXCEPT ![p] = reply]
           /\ pending' = PendingAfter(pending, sent[p], reply)
           /\ peerAcked' = IF acked
                           THEN [peerAcked EXCEPT ![p] = @ \cup SeqToSet(sent[p])]
                           ELSE peerAcked
           /\ sPc' = [sPc EXCEPT ![p] = IF acked THEN "pull" ELSE "idle"]
           /\ syncMetrics' =
                CASE acked ->
                       Add(Add(syncMetrics, "push_successes", 1),
                           "entries_sent", reply.count)
                  [] reply.type = "IoError" -> CycleFailed(syncMetrics)
                  [] OTHER -> CycleFailed(Add(syncMetrics, "push_failures", 1))
           /\ wire' = [wire EXCEPT ![p] =
                         Append(@, IF reply.type = "PushAck" /\ ~acked
                                   THEN "PushAckMismatch" ELSE reply.type)]
    /\ lockHolder' = "none"
    /\ UNCHANGED <<nextEntry, sent, peerGot, lastPull, cycles, pushLog,
                   notSync>>

\* pull_changes: Pull since the watermark, reply, watermark update
PullChanges(p) ==
    /\ sPc[p] = "pull"
    /\ \E reply \in PullReplies :
        /\ lastPull' =
             IF reply.type = "PullResponse" /\ reply.entries # <<>>
             THEN MapInsert(lastPull, p, reply.entries[Len(reply.entries)])
             ELSE lastPull
        /\ syncMetrics' =
             CASE reply.type = "PullResponse" ->
                    Add(Add(Add(syncMetrics, "pull_attempts", 1),
                            "pull_successes", 1),
                        "entries_received", Len(reply.entries))
               [] reply.type = "IoError" ->
                    CycleFailed(Add(syncMetrics, "pull_attempts", 1))
               [] OTHER ->
                    CycleFailed(Add(Add(syncMetrics, "pull_attempts", 1),
                                    "pull_failures", 1))
        /\ wire' = [wire EXCEPT ![p] = @ \o <<"Pull", reply.type>>]
    /\ sPc' = [sPc EXCEPT ![p] = "idle"]
    /\ UNCHANGED <<pending, lockHolder, nextEntry, sent, sReply, peerGot,
                   peerAcked, cycles, pushLog, notSync>>

NextSync ==
    \/ EnqueueChange
    \/ \E p \in Peers : ConnectTls(p)
    \/ \E p \in Peers : Authenticate(p)
    \/ \E p \in Peers : PushChanges(p)
    \/ \E p \in Peers : PushSend(p)
    \/ \E p \in Peers : PushReply(p)
    \/ \E p \in Peers : PullChanges(p)

SpecSync == InitSync /\ [][NextSync]_vars

(***************************************************************************)
(* Replication claims                                                      *)
(***************************************************************************)
Enqueued == 1..(nextEntry - 1)

\* the step in which push_changes of peer p returns
PushReturns(p) ==
    /\ sPc[p] \in {"push_lock", "push_wait"}
    /\ sPc'[p] \in {"pull", "idle"}

\* C9: push is atomic. When push_changes returns, either the peer answered
\* PushAck with a count equal to the number of entries sent and exactly the
\* sent entries left the pending set, or every entry that was pending before
\* the push is still pending; a push never removes part of the batch.
C9_PushAtomic ==
    [][\A p \in Peers : PushReturns(p) =>
          \/ /\ sPc[p] = "push_wait"
             /\ sReply'[p].type = "PushAck"
             /\ sReply'[p].count = Len(sent[p])
             /\ SeqToSet(sent[p]) \subseteq SeqToSet(pending)
             /\ SeqToSet(pending') = SeqToSet(pending) \ SeqToSet(sent[p])
          \/ pending' = pending]_vars

\* one peer answered a two-entry Push with a wrong count, the entries stayed
\* pending, and the other peer was then pushed the same two entries and
\* acknowledged both
C9_Witness ==
    \E p, q \in Peers :
        /\ p # q
        /\ Len(sent[p]) = 2
        /\ sReply[p].type = "PushAck" /\ sReply[p].count = 1
        /\ sPc[p] = "idle"
        /\ sent[q] = sent[p]
        /\ sReply[q].type = "PushAck" /\ sReply[q].count = 2
        /\ sPc[q] = "pull"
        /\ pending = <<>>

\* C10: an entry leaves the pending set only after every configured peer has
\* acknowledged it; an acknowledgement from one peer never removes an entry
\* another peer has not acknowledged.
C10_PendingUntilEveryPeerAcked ==
    \A e \in Enqueued :
        e \notin SeqToSet(pending) => \A p \in Peers : e \in peerAcked[p]

\* C11: the per-peer pull watermark is monotonically non-decreasing: no step
\* stores in last_pull_timestamps a value for a peer lower than the value it
\* held for that peer before, whatever the peer's PullResponses contain.
C11_WatermarkMonotone ==
    [][\A p \in DOMAIN lastPull : lastPull'[p] >= lastPull[p]]_vars

\* C12: after a pull step that returned successfully with entries, every
\* received entry has been reconciled with the local state before the
\* watermark moved past it: the merge resolver was invoked and the merged
\* result was upserted into the local store.
C12_PulledEntriesReconciled ==
    \A p \in DOMAIN lastPull :
        lastPull[p] > 0 =>
            /\ mPc # "start"
            /\ \E n \in DOMAIN calls : calls[n].ok

\* entities upserted successfully by the store calls made so far
RECURSIVE UpsertCount(_)
UpsertCount(cs) ==
    IF cs = <<>> THEN 0
    ELSE (IF Head(cs).ok THEN Len(Head(cs).items) ELSE 0) + UpsertCount(Tail(cs))

\* C13: every successful local upsert (batcher flush or synchronous fallback
\* of a handler) appends exactly one ChangeLogEntry to the replication
\* pending log, and a failed upsert appends none: the number of entries
\* enqueued equals the number of entities upserted successfully.
C13_UpsertAppendsChangeLog ==
    Cardinality(Enqueued) = UpsertCount(calls)

(***************************************************************************)
(* Order and error handling of the batcher (checked under SpecPersist)     *)
(***************************************************************************)
\* the store calls of the worker task, in the order it made them
WorkerCalls == SelectSeq(calls, LAMBDA c : c.by = "worker")

WorkerCallsOf(op) == SelectSeq(WorkerCalls, LAMBDA c : c.op = op)

\* the jobs of a sequence of store calls, call after call
RECURSIVE JobsOf(_)
JobsOf(cs) == IF cs = <<>> THEN <<>> ELSE Head(cs).items \o JobsOf(Tail(cs))

\* submit accepts the jobs of a request in request order, so a job accepted
\* earlier has the lower index
InAcceptOrder(q) == \A i, j \in DOMAIN q : i < j => q[i] < q[j]

FallbackFollows(n) ==
    LET batch == WorkerCalls[n].items
    IN /\ \A j \in 1..Len(batch) :
            n + j <= Len(WorkerCalls) =>
                /\ WorkerCalls[n + j].op = "merge_entity"
                /\ WorkerCalls[n + j].items = <<batch[j]>>
       /\ n + Len(batch) + 1 <= Len(WorkerCalls) =>
            WorkerCalls[n + Len(batch) + 1].op = "merge_batch"
       /\ Len(WorkerCalls) < n + Len(batch) => wPc \in {"fallback", "aborted"}

\* C15: when merge_batch returns an error the worker calls merge_entity
\* exactly once for every job of that batch, in batch order, and for nothing
\* else; every failing merge_entity is counted in the per-item failure
\* counter and neither keeps the remaining jobs from being attempted nor ends
\* the worker, which terminates only once the channel is closed and empty.
C15_PerItemFallback ==
    /\ \A n \in DOMAIN WorkerCalls :
        /\ (WorkerCalls[n].op = "merge_batch" /\ ~WorkerCalls[n].ok)
              => FallbackFollows(n)
        /\ WorkerCalls[n].op = "merge_entity" =>
              /\ n > 1
              /\ \/ WorkerCalls[n - 1].op = "merge_entity"
                 \/ ~WorkerCalls[n - 1].ok
    /\ metrics.persist_per_item_failures =
          Len(SelectSeq(WorkerCallsOf("merge_entity"), LAMBDA c : ~c.ok))
    /\ wPc = "fallback" => wJobs # <<>>
    /\ wPc = "terminated" => (~sendersAlive /\ channel = <<>>)

\* C15 witness: a batch of two failed, merge_entity failed for its first job
\* and succeeded for its second, one per-item failure is counted and the
\* worker is back at the select.
C15_Witness ==
    /\ Len(WorkerCalls) = 3
    /\ WorkerCalls[1].op = "merge_batch" /\ ~WorkerCalls[1].ok
    /\ WorkerCalls[1].items = <<1, 2>>
    /\ WorkerCalls[2].items = <<1>> /\ ~WorkerCalls[2].ok
    /\ WorkerCalls[3].items = <<2>> /\ WorkerCalls[3].ok
    /\ metrics.persist_per_item_failures = 1
    /\ wPc = "select" /\ sendersAlive

\* job i was part of a batch handed to merge_batch
Flushed(i) ==
    \E n \in DOMAIN WorkerCalls :
        WorkerCalls[n].op = "merge_batch" /\ i \in ItemsOf(WorkerCalls[n])

\* C16: the worker starts its final flush (Draining) and terminates only
\* after the channel was closed, that is with every sender dropped and the
\* queue empty; when it has terminated nothing is left in the queue or the
\* buffer and every accepted job was included in a flush.
C16_DrainOnClose ==
    /\ (wDraining \/ wPc = "terminated") => (~sendersAlive /\ channel = <<>>)
    /\ wPc = "terminated" =>
          /\ buffer = <<>> /\ wJobs = <<>>
          /\ \A i \in accepted : Flushed(i)

\* C16 witness: with batch_size 2 one job was accepted and buffered, the
\* senders were dropped, and the worker flushed that job in its final flush
\* and terminated.
C16_Witness ==
    /\ wPc = "terminated" /\ wDraining /\ ~sendersAlive
    /\ pBatch = 2 /\ accepted = {1}
    /\ Len(calls) = 1 /\ calls[1].op = "merge_batch" /\ calls[1].items = <<1>>

(***************************************************************************)
(* The batcher with the flush timer (src/persist/mod.rs, start_batcher)    *)
(*   time advances in ticks while the worker waits in the select; the      *)
(*   sleep of the select is created anew in every iteration of the loop    *)
(***************************************************************************)
FlushInterval == 2     \* flush_interval in ticks
TimedBatch == 3        \* batch_size of the timed runs

InitTimed ==
    /\ pRecords \in UNION {[1..n -> {CHOOSE k \in RecordKinds : TRUE}] :
                              n \in 1..MaxRecords}
    /\ pPath = "ndjson"
    /\ pCap \in 1..MaxCapacity
    /\ pBatch \in 1..TimedBatch
    /\ hPc = "submit"
    /\ hIdx = 1
    /\ hAttempts = 0
    /\ channel = <<>>
    /\ sendersAlive = TRUE
    /\ wPc = "select"
    /\ buffer = <<>>
    /\ wJobs = <<>>
    /\ wDraining = FALSE
    /\ graph = EmptyMap
    /\ calls = <<>>
    /\ accepted = {}
    /\ metrics = NoMetrics
    /\ wSleep = 0
    /\ bufAge = 0
    /\ MergeIdle
    /\ SyncNew
    /\ ExtrasIdle

\* one tick passes while the worker waits in the select: recv has nothing to
\* yield and the sleep has not yet run for flush_interval
Tick ==
    /\ wPc = "select"
    /\ channel = <<>>
    /\ sendersAlive
    /\ wSleep < FlushInterval
    /\ wSleep' = wSleep + 1
    /\ bufAge' = IF buffer # <<>> THEN bufAge + 1 ELSE 0
    /\ UNCHANGED <<pRecords, pPath, pCap, pBatch, hPc, hIdx, hAttempts, channel,
                   sendersAlive, wPc, buffer, wJobs, wDraining, graph, calls,
                   accepted, metrics, notPersist>>

\* the sleep branch is taken when the sleep of this iteration has run out
WorkerTimerDue ==
    /\ wSleep = FlushInterval
    /\ WorkerTimer

\* the sleep ran out with an empty buffer: nothing to flush, next iteration
WorkerTimerIdle ==
    /\ wPc = "select"
    /\ channel = <<>>
    /\ sendersAlive
    /\ buffer = <<>>
    /\ wSleep = FlushInterval
    /\ wSleep' = 0
    /\ UNCHANGED <<pRecords, pPath, pCap, pBatch, hPc, hIdx, hAttempts, channel,
                   sendersAlive, wPc, buffer, wJobs, wDraining, graph, calls,
                   accepted, metrics, bufAge, notPersist>>

NextTimed ==
    \/ HandlerSubmit \/ HandlerSyncUpsert \/ DropSenders
    \/ WorkerRecv \/ WorkerTimerDue \/ WorkerTimerIdle \/ WorkerClosed
    \/ WorkerFallbackItem
    \/ Tick

SpecTimed == InitTimed /\ [][NextTimed]_vars

\* C17: a job taken into the buffer is flushed when the buffer holds
\* batch_size jobs or at the latest flush_interval after it entered the
\* buffer, also when further jobs keep arriving at shorter intervals: no
\* job has been in the buffer for more than flush_interval.
C17_FlushWithinInterval ==
    bufAge <= FlushInterval

(***************************************************************************)
(* Order of a sync cycle (checked under SpecSync)                          *)
(***************************************************************************)
\* the replies and transport results that end a cycle with an error
CycleErrors == {"AuthFailed", "Error", "Pong", "IoError", "PushAckMismatch"}

\* the frames of one cycle are in protocol order and nothing follows an error
WireInOrder(p) ==
    LET w == wire[p]
    IN \A i \in DOMAIN w :
        /\ w[i] = "Auth" => i = 1
        /\ w[i] = "Push" => (i = 3 /\ w[1] = "Auth" /\ w[2] = "AuthOk")
        /\ w[i] = "Pull" =>
              /\ w[1] = "Auth" /\ w[2] = "AuthOk"
              /\ \/ i = 3
                 \/ i = 5 /\ w[3] = "Push" /\ w[4] = "PushAck"
        /\ w[i] \in CycleErrors => (i = Len(w) /\ sPc[p] = "idle")

\* the step in which the cycle of peer p ends with an error
CycleFails(p) ==
    /\ wire'[p] # wire[p] \/ cycles'[p] # cycles[p]
    /\ wire'[p] # <<>>
    /\ wire'[p][Len(wire'[p])] \in CycleErrors

\* C18: within one sync cycle the agent sends Auth first, sends Push only
\* after it received AuthOk, and sends Pull only after the push step
\* succeeded; an I/O error, AuthFailed, an Error reply or an unexpected reply
\* ends the cycle at that step, with no further frame sent, the failure is
\* counted once in reconnections (and nothing else is), and the loop of the
\* peer is back at waiting for its next tick.
C18_CycleOrder ==
    [][/\ \A p \in Peers : WireInOrder(p)'
       /\ \A p \in Peers :
            CycleFails(p) =>
                /\ syncMetrics'.reconnections = syncMetrics.reconnections + 1
                /\ sPc'[p] = "idle"
       /\ (\A p \in Peers : ~CycleFails(p)) =>
            syncMetrics'.reconnections = syncMetrics.reconnections]_vars

\* C18 witness: the first cycle with a peer ended at the push step (one push
\* failure, counted as one reconnection), and the second cycle with the same
\* peer went through Auth, Push and Pull.
C18_Witness ==
    \E p \in Peers :
        /\ cycles[p] = 2
        /\ syncMetrics.push_failures = 1
        /\ syncMetrics.reconnections = 1
        /\ wire[p] = <<"Auth", "AuthOk", "Push", "PushAck", "Pull", "PullResponse">>

(***************************************************************************)
(* The agent with the scheduling of its tasks                              *)
(*   a task that can take a step of its own takes it; a step that waits    *)
(*   for a reply of the peer is taken only if the peer answers or the      *)
(*   connection fails                                                      *)
(***************************************************************************)
SpecSyncLive ==
    /\ InitSync
    /\ [][NextSync]_vars
    /\ WF_vars(EnqueueChange)
    /\ \A p \in Peers :
        /\ WF_vars(ConnectTls(p))
        /\ WF_vars(PushChanges(p))
        /\ SF_vars(PushSend(p))

\* C19: every wait of a sync cycle is bounded by a deadline: whenever a push
\* holds the lock on the pending set, the lock is eventually released, also
\* when the peer stops responding.
C19_LockReleased ==
    (lockHolder # "none") ~> (lockHolder = "none")

\* C20: change-log entries are sent in generation order: the entries of every
\* Push frame are in the order of the enqueue_change calls, an entry
\* enqueued earlier is first sent no later than an entry enqueued after it,
\* and a Push that follows a Push of the later entry never carries the
\* earlier entry without the later one.
C20_GenerationOrder ==
    \A n \in DOMAIN pushLog :
        /\ \A i, j \in DOMAIN pushLog[n] : i < j => pushLog[n][i] < pushLog[n][j]
        /\ \A later \in SeqToSet(pushLog[n]) :
            \A earlier \in 1..(later - 1) :
                /\ \E k \in 1..n : earlier \in SeqToSet(pushLog[k])
                /\ \A m \in (n + 1)..Len(pushLog) :
                      earlier \in SeqToSet(pushLog[m])
                          => later \in SeqToSet(pushLog[m])

\* C20 witness: a Push of entry 1 was not acknowledged, entry 2 was enqueued,
\* and the next Push carried entries 1 and 2 in that order.
C20_Witness ==
    pushLog = << <<1>>, <<1, 2>> >>

(***************************************************************************)
(* Wire framing (src/sync/agent.rs, send_message / receive_message)        *)
(*   one direction of a connection: a writer calling send_message, a       *)
(*   reader calling receive_message, and a peer that can write a frame     *)
(*   with a length prefix of its own choice                                *)
(***************************************************************************)
MAX_ENTRY_SIZE == 3    \* the frame limit, scaled down from 10 MiB to bytes
MaxFrames == 2         \* frames written to one stream in a run

\* strings of the messages, as byte sequences
Texts == {<<>>, <<97>>}

\* the entry lists of Push and PullResponse: the first n entries
EntryLists == {[i \in 1..n |-> i] : n \in 0..MaxEntries}

SyncMessages ==
    {[type |-> "AuthOk"], [type |-> "Ping"], [type |-> "Pong"]}
    \cup {[type |-> "Auth", token |-> t] : t \in Texts}
    \cup {[type |-> "AuthFailed", reason |-> t] : t \in Texts}
    \cup {[type |-> "Error", message |-> t] : t \in Texts}
    \cup {[type |-> "Push", entries |-> es] : es \in EntryLists}
    \cup {[type |-> "PullResponse", entries |-> es] : es \in EntryLists}
    \cup {[type |-> "PushAck", count |-> n] : n \in 0..MaxEntries}
    \cup {[type |-> "Pull", since_timestamp |-> n] : n \in 0..MaxTimestamp}

\* the byte that stands for the "type" tag of the JSON object
TagOf(type) ==
    CASE type = "Auth" -> 1 [] type = "AuthOk" -> 2 [] type = "AuthFailed" -> 3
      [] type = "Push" -> 4 [] type = "PushAck" -> 5 [] type = "Pull" -> 6
      [] type = "PullResponse" -> 7 [] type = "Ping" -> 8 [] type = "Pong" -> 9
      [] type = "Error" -> 10

\* serde_json::to_vec(msg): the tag, then the fields of the variant; a
\* string or a list is written with its length in front
Serialize(msg) ==
    <<TagOf(msg.type)>> \o
    CASE msg.type = "Auth"         -> <<Len(msg.token)>> \o msg.token
      [] msg.type = "AuthFailed"   -> <<Len(msg.reason)>> \o msg.reason
      [] msg.type = "Error"        -> <<Len(msg.message)>> \o msg.message
      [] msg.type = "Push"         -> <<Len(msg.entries)>> \o msg.entries
      [] msg.type = "PullResponse" -> <<Len(msg.entries)>> \o msg.entries
      [] msg.type = "PushAck"      -> <<msg.count>>
      [] msg.type = "Pull"         -> <<msg.since_timestamp>>
      [] OTHER                     -> <<>>

\* serde_json::from_slice(buf): Err unless buf is the serialization of a message
Deserialize(buf) ==
    IF \E m \in SyncMessages : Serialize(m) = buf
    THEN Ok(CHOOSE m \in SyncMessages : Serialize(m) = buf)
    ELSE Err("failed to deserialize message")

\* (len as u32).to_be_bytes() given least significant byte first
ToLeBytes(len) ==
    <<len % 256, (len \div 256) % 256, (len \div 65536) % 256,
      (len \div 16777216) % 256>>

\* (len as u32).to_be_bytes()
ToBeBytes(len) ==
    <<(len \div 16777216) % 256, (len \div 65536) % 256, (len \div 256) % 256,
      len % 256>>

\* u32::from_be_bytes(len_bytes)
FromBeBytes(b) == b[1] * 16777216 + b[2] * 65536 + b[3] * 256 + b[4]

\* no frame is ever too large
TooLargeNever(len) == FALSE

\* len > MAX_ENTRY_SIZE
TooLarge(len) == len > MAX_ENTRY_SIZE

Drop(q, n) == SubSeq(q, n + 1, Len(q))

FramesWritten == Len(fSent) + (IF fForeign THEN 1 ELSE 0)

InitFrame ==
    /\ fStream = <<>>
    /\ fOpen = TRUE
    /\ fSent = <<>>
    /\ fRecv = <<>>
    /\ fForeign = FALSE
    /\ fLast = [op |-> "none", ok |-> TRUE, len |-> 0]
    /\ MergeIdle
    /\ PersistIdle
    /\ SyncNew
    /\ ExtrasIdleExcept("frame")

\* send_message(msg): serialize, check the size, write prefix and body
SendMessage ==
    /\ fOpen
    /\ FramesWritten < MaxFrames
    /\ \E msg \in SyncMessages :
        LET json == Serialize(msg)
            len == Len(json)
        IN IF TooLarge(len)
           THEN /\ fLast' = [op |-> "send", ok |-> FALSE, len |-> len]
                /\ fOpen' = FALSE
                /\ UNCHANGED <<fStream, fSent>>
           ELSE /\ fStream' = fStream \o ToBeBytes(len) \o json
                /\ fSent' = Append(fSent, msg)
                /\ fLast' = [op |-> "send", ok |-> TRUE, len |-> len]
                /\ UNCHANGED fOpen
    /\ UNCHANGED <<fRecv, fForeign, notFrame>>

\* the peer writes a frame whose prefix announces more than the limit
PeerWritesOversize ==
    /\ fOpen
    /\ ~fForeign
    /\ FramesWritten < MaxFrames
    /\ fStream' = fStream \o ToBeBytes(MAX_ENTRY_SIZE + 1)
                          \o [i \in 1..(MAX_ENTRY_SIZE + 1) |-> 0]
    /\ fForeign' = TRUE
    /\ UNCHANGED <<fOpen, fSent, fRecv, fLast, notFrame>>

\* receive_message: read the prefix, check the size, read and parse the body
ReceiveMessage ==
    /\ fOpen
    /\ Len(fStream) >= 4
    /\ LET len == FromBeBytes(SubSeq(fStream, 1, 4))
       IN IF TooLarge(len)
          THEN /\ fStream' = Drop(fStream, 4)
               /\ fLast' = [op |-> "receive", ok |-> FALSE, len |-> len]
               /\ fOpen' = FALSE
               /\ UNCHANGED fRecv
          ELSE /\ Len(fStream) >= 4 + len
               /\ LET msg == Deserialize(SubSeq(fStream, 5, 4 + len))
                  IN /\ fStream' = Drop(fStream, 4 + len)
                     /\ fLast' = [op |-> "receive", ok |-> msg.ok, len |-> len]
                     /\ fOpen' = msg.ok
                     /\ fRecv' = IF msg.ok THEN Append(fRecv, msg.val) ELSE fRecv
    /\ UNCHANGED <<fSent, fForeign, notFrame>>

NextFrame == SendMessage \/ PeerWritesOversize \/ ReceiveMessage

SpecFrame == InitFrame /\ [][NextFrame]_vars

\* the bytes send_message writes for msg
FrameOf(msg) == ToBeBytes(Len(Serialize(msg))) \o Serialize(msg)

RECURSIVE FramesOf(_)
FramesOf(msgs) ==
    IF msgs = <<>> THEN <<>> ELSE FrameOf(Head(msgs)) \o FramesOf(Tail(msgs))

IsPrefix(q, r) == Len(q) <= Len(r) /\ SubSeq(r, 1, Len(q)) = q

C22_OversizeRejected ==
    [][/\ \A n \in DOMAIN fSent' : Len(Serialize(fSent'[n])) <= MAX_ENTRY_SIZE
       /\ fLast'.len > MAX_ENTRY_SIZE =>
            /\ ~fLast'.ok /\ ~fOpen'
            /\ pending' = pending
            /\ fSent' = fSent /\ fRecv' = fRecv
            /\ fLast'.op = "send" => fStream' = fStream
            /\ fLast'.op = "receive" => fStream' = Drop(fStream, 4)]_vars

\* C22 witness: after a message at the limit was sent and received, the peer
\* wrote a prefix above the limit and receive_message failed, the announced
\* body still unread on the stream.
C22_Witness ==
    /\ Len(fRecv) = 1 /\ Len(Serialize(fRecv[1])) = MAX_ENTRY_SIZE
    /\ fLast = [op |-> "receive", ok |-> FALSE, len |-> MAX_ENTRY_SIZE + 1]
    /\ Len(fStream) = MAX_ENTRY_SIZE + 1
    /\ ~fOpen

(***************************************************************************)
(* The resolver on versions of different entities (src/sync/merge.rs)      *)
(***************************************************************************)
\* versions of two entity types and two keys, with counts small and large
EntityVersionsKeyed ==
    [entity_type : {"Sighting", "Entity"},
     key : {"ip:192.168.1.1", "ip:10.0.0.1"},
     props : {JsonNull} \cup {JsonObject([x \in {"count"} |-> v]) :
                                 v \in {MaxCount, U64_MAX}},
     version : VersionVectors, tombstone : BOOLEAN]

InitMergeKeyed ==
    /\ mConfig \in Configs
    /\ mLocal \in EntityVersionsKeyed
    /\ mRemote \in EntityVersionsKeyed
    /\ mPc = "start"
    /\ mAB = NotRun
    /\ mOp = "none"
    /\ mOut = NotRun
    /\ mOverflowChecks \in BOOLEAN
    /\ PersistIdle
    /\ SyncNew
    /\ ExtrasIdle

NextMergeKeyed == MergeAB \/ MergeBA

SpecMergeKeyed == InitMergeKeyed /\ [][NextMergeKeyed]_vars

SameEntity == mLocal.entity_type = mRemote.entity_type /\ mLocal.key = mRemote.key

\* C23: merge returns an error exactly when the two versions differ in
\* entity_type or in key; for every pair with equal entity_type and key it
\* returns a merged version, under every strategy and in both argument orders.
C23_ErrorIffIncompatible ==
    /\ mPc # "start" => (mAB.ok <=> SameEntity)
    /\ mPc = "done" => (mOut.ok <=> SameEntity)

(***************************************************************************)
(* OIDC token validation (src/sync/auth.rs)                                *)
(***************************************************************************)
\* key ids the provider may publish; "k3" names a key that is not RSA
Kids == {"k1", "k2", "k3"}

Kty(kid) == IF kid = "k3" THEN "EC" ELSE "RSA"

\* a token: whether its header decodes, the kid of the header ("none" when
\* the header has no kid), and what decode and the expiry check find
Tokens == [header : BOOLEAN, kid : Kids \cup {"none"}, body : {"good", "bad", "expired"}]

\* validate_token against the cached key set: the claims ("Ok") or the error
\* of the first check that fails
ValidateAgainst(token, cache) ==
    IF ~token.header THEN "failed to decode JWT header"
    ELSE IF token.kid = "none" THEN "JWT header missing 'kid' field"
    ELSE IF ~cache.loaded THEN "JWKS not loaded; call initialize first"
    ELSE IF token.kid \notin cache.keys THEN "no matching key found in JWKS"
    ELSE IF Kty(token.kid) # "RSA" THEN "unsupported key type"
    ELSE IF token.body = "bad" THEN "failed to validate JWT"
    ELSE IF token.body = "expired" THEN "token has expired"
    ELSE "Ok"

InitAuth ==
    /\ jwks = NoJwks
    /\ served \in SUBSET Kids
    /\ aLast = NoCall
    /\ MergeIdle
    /\ PersistIdle
    /\ SyncNew
    /\ ExtrasIdleExcept("auth")

\* fetch_jwks: GET jwks_uri; on success the cache is replaced, on failure
\* (transport or parse error) it is left as it was
FetchJwks(ok) ==
    /\ jwks' = IF ok THEN Loaded(served) ELSE jwks
    /\ UNCHANGED <<served, aLast>>

\* initialize(): fetch_discovery, then fetch_jwks
Initialize ==
    /\ ~jwks.loaded
    /\ \E ok \in BOOLEAN : FetchJwks(ok)
    /\ UNCHANGED notAuth

\* refresh_jwks(): fetch_jwks again, when a caller asks for it
RefreshJwks ==
    /\ jwks.loaded
    /\ \E ok \in BOOLEAN : FetchJwks(ok)
    /\ UNCHANGED notAuth

\* the provider rotates its signing keys
RotateKeys ==
    /\ \E keys \in SUBSET Kids : keys # served /\ served' = keys
    /\ UNCHANGED <<jwks, aLast>>
    /\ UNCHANGED notAuth

\* validate_token(token): one pass over the cached key set, no fetch
ValidateToken ==
    /\ \E token \in Tokens :
         aLast' = [op |-> "validate", token |-> token, cached |-> jwks,
                   served |-> served, fetches |-> 0,
                   result |-> ValidateAgainst(token, jwks)]
    /\ UNCHANGED <<jwks, served>>
    /\ UNCHANGED notAuth

NextAuth == Initialize \/ RefreshJwks \/ RotateKeys \/ ValidateToken

SpecAuth == InitAuth /\ [][NextAuth]_vars

\* the last validate_token call met a kid that the cached key set lacks
KidMiss ==
    /\ aLast.op = "validate"
    /\ aLast.token.header
    /\ aLast.token.kid \in Kids
    /\ aLast.cached.loaded
    /\ aLast.token.kid \notin aLast.cached.keys

\* C24: on a kid that is not in the cached JWKS, validate_token refreshes the
\* JWKS exactly once and validates against the refreshed set; it rejects the
\* token for an unknown key only if the provider does not serve the kid either.
C24_RefreshOnceOnKidMiss ==
    KidMiss =>
        /\ aLast.fetches = 1
        /\ aLast.result = "no matching key found in JWKS" =>
               aLast.token.kid \notin aLast.served

(***************************************************************************)
(* NDJSON upload: chunked line splitting (src/ingest/handler.rs) and the   *)
(* line normalizer (src/ingest/ndjson.rs)                                  *)
(***************************************************************************)
MaxBody == 4           \* request bodies have at most MaxBody bytes
MaxLineBytes == 2      \* 10 * 1024 * 1024 of ndjson_upload, scaled down
BodyLimitBytes == 2    \* 10 * 1024 * 1024 of RequestBodyLimitLayer, scaled down

\* the bytes of a body: a letter, the comma, carriage return, line feed
Bytes == {"T", ",", "CR", "LF"}

\* char::is_whitespace among the bytes of the model
Whitespace == {"CR", "LF", "TAB", " "}

RECURSIVE SeqsUpTo(_, _)
\* all sequences over S of length at most n
SeqsUpTo(S, n) ==
    IF n = 0 THEN {<<>>}
    ELSE LET shorter == SeqsUpTo(S, n - 1)
         IN  shorter \cup {Append(q, x) : q \in {r \in shorter : Len(r) = n - 1}, x \in S}

RECURSIVE TrimStart(_)
TrimStart(str) ==
    IF str # <<>> /\ Head(str) \in Whitespace THEN TrimStart(Tail(str)) ELSE str

RECURSIVE TrimEnd(_)
TrimEnd(str) ==
    IF str # <<>> /\ str[Len(str)] \in Whitespace
    THEN TrimEnd(SubSeq(str, 1, Len(str) - 1))
    ELSE str

\* str::trim
Trim(str) == TrimEnd(TrimStart(str))

\* str::to_lowercase
ToLowercase(str) ==
    [n \in DOMAIN str |-> IF str[n] = "T" THEN "t" ELSE IF str[n] = "A" THEN "a" ELSE str[n]]

\* index of the first occurrence of b in str, 0 if there is none
Position(str, b) ==
    IF \E n \in DOMAIN str : str[n] = b
    THEN CHOOSE n \in DOMAIN str : str[n] = b /\ \A k \in 1..(n - 1) : str[k] # b
    ELSE 0

\* canonicalize of ndjson.rs for a field type other than domain, ip, hash
\* and email, the only ones a line over Bytes can name
CanonicalizeOther(raw) == ToLowercase(Trim(raw))

\* normalize_ndjson_line: no line over Bytes parses as JSON, so a line gives
\* a record by the `type,value` fallback or not at all (the empty sequence)
NormalizeNdjsonLine(line) ==
    LET trimmed == Trim(line)
        comma == Position(trimmed, ",")
    IN  IF trimmed = <<>> \/ comma = 0 THEN <<>>
        ELSE LET ftype == ToLowercase(Trim(SubSeq(trimmed, 1, comma - 1)))
                 raw == Trim(SubSeq(trimmed, comma + 1, Len(trimmed)))
             IN  << [field_type |-> ftype, raw |-> raw,
                     canonical |-> CanonicalizeOther(raw)] >>

\* a complete line without its line feed and without one carriage return
\* before it
StripCr(line_bytes) ==
    IF line_bytes # <<>> /\ line_bytes[Len(line_bytes)] = "CR"
    THEN SubSeq(line_bytes, 1, Len(line_bytes) - 1)
    ELSE line_bytes

RECURSIVE DrainLines(_, _)
\* the inner loop of ndjson_upload: drain every complete line of buf
DrainLines(buf, records) ==
    LET pos == Position(buf, "LF")
    IN  IF pos = 0 THEN [buf |-> buf, records |-> records]
        ELSE DrainLines(SubSeq(buf, pos + 1, Len(buf)),
                        records \o NormalizeNdjsonLine(StripCr(SubSeq(buf, 1, pos - 1))))

InitNdjson ==
    /\ nBody \in SeqsUpTo(Bytes, MaxBody)
    /\ nLimited \in BOOLEAN
    /\ nPos = 0
    /\ nBuf = <<>>
    /\ nRecords = <<>>
    /\ nPc = "reading"
    /\ MergeIdle
    /\ PersistIdle
    /\ SyncNew
    /\ ExtrasIdleExcept("ndjson")

\* the stream yields the next n bytes as one chunk: Ok(bytes_chunk)
ReadChunkOk(n) ==
    LET drained == DrainLines(nBuf \o SubSeq(nBody, nPos + 1, nPos + n), nRecords)
    IN  /\ nPos' = nPos + n
        /\ nBuf' = drained.buf
        /\ nRecords' = drained.records
        /\ nPc' = IF Len(drained.buf) > MaxLineBytes THEN "rejected" ELSE "reading"

\* the limited body has no room for the next chunk: Err(e), 400
ReadChunkErr(n) ==
    /\ nPos' = nPos + n
    /\ nPc' = "rejected"
    /\ UNCHANGED <<nBuf, nRecords>>

\* one iteration of `while let Some(chunk_res) = stream.next().await`
ReadChunk ==
    /\ nPc = "reading"
    /\ \E n \in 1..(Len(nBody) - nPos) :
         IF nLimited /\ nPos + n > BodyLimitBytes
         THEN ReadChunkErr(n)
         ELSE ReadChunkOk(n)
    /\ UNCHANGED <<nBody, nLimited>>
    /\ UNCHANGED notNdjson

\* the stream has ended: the trailing data is one more line
StreamEnd ==
    /\ nPc = "reading"
    /\ nPos = Len(nBody)
    /\ nRecords' = IF nBuf # <<>> THEN nRecords \o NormalizeNdjsonLine(nBuf) ELSE nRecords
    /\ nBuf' = <<>>
    /\ nPc' = "ok"
    /\ UNCHANGED <<nBody, nLimited, nPos>>
    /\ UNCHANGED notNdjson

NextNdjson == ReadChunk \/ StreamEnd

SpecNdjson == InitNdjson /\ [][NextNdjson]_vars

RECURSIVE SplitLines(_)
\* the lines of a body: delimited by line feeds, the last one possibly
\* without a line feed
SplitLines(body) ==
    LET pos == Position(body, "LF")
    IN  IF body = <<>> THEN <<>>
        ELSE IF pos = 0 THEN <<body>>
        ELSE <<SubSeq(body, 1, pos - 1)>> \o SplitLines(SubSeq(body, pos + 1, Len(body)))

RECURSIVE RecordsOf(_)
\* the records of a sequence of lines
RecordsOf(lines) ==
    IF lines = <<>> THEN <<>>
    ELSE NormalizeNdjsonLine(StripCr(Head(lines))) \o RecordsOf(Tail(lines))

SomeLineTooLong(body) ==
    \E n \in DOMAIN SplitLines(body) : Len(SplitLines(body)[n]) > MaxLineBytes

\* C25: however the body is split into chunks, the handler rejects the request
\* if and only if some single line is longer than the maximum, and otherwise
\* answers with the records of the body's lines, in order.
C25_ChunkingIndependent ==
    /\ nPc = "rejected" => SomeLineTooLong(nBody)
    /\ nPc = "ok" => /\ ~SomeLineTooLong(nBody)
                     /\ nRecords = RecordsOf(SplitLines(nBody))

(***************************************************************************)
(* Format detection (src/ingest/format_detection.rs, and the older         *)
(* detect_dump_type of src/ingest/handler.rs)                              *)
(***************************************************************************)
MaxPeek == 4           \* the peek buffer holds at most MaxPeek bytes

\* bytes of a peek buffer: 1f 8b (gzip magic), P K 03 04 (zip magic),
\* brackets, comma, tab, line feed
PeekBytes == {"1f", "8b", "P", "K", "03", "04", "{", "[", ",", "TAB", "LF"}

\* is_printable: tab, lf, cr and 0x20..=0x7E
IsPrintable(b) == b \in {"P", "K", "{", "[", ",", "TAB", "LF"}

\* format hints of an upload: absent, known ones in either case, unknown
Hints == {"none", "TSV", "gz", "bogus"}

\* FormatType::from_hint: the hint in lower case names a format, or none
FromHint(hint) ==
    LET lower == IF hint = "TSV" THEN "tsv" ELSE hint
    IN  IF lower \in {"csv", "tsv", "json", "zip"} THEN lower
        ELSE IF lower \in {"ndjson", "jsonl"} THEN "ndjson"
        ELSE IF lower \in {"xlsx", "excel"} THEN "xlsx"
        ELSE IF lower \in {"gzip", "gz"} THEN "gzip"
        ELSE "none"

PrintableCount(peek) == Cardinality({n \in DOMAIN peek : IsPrintable(peek[n])})

\* printable_ratio < 0.7, the ratio of an empty peek being 1.0
MostlyBinary(peek) == peek # <<>> /\ 10 * PrintableCount(peek) < 7 * Len(peek)

StartsWithBracket(text) == text # <<>> /\ Head(text) \in {"{", "["}

\* every line is blank or starts with a bracket, and there is more than one
NdjsonLike(text) ==
    LET lines == SplitLines(text)
    IN  /\ Len(lines) > 1
        /\ \A n \in DOMAIN lines :
               Trim(lines[n]) = <<>> \/ StartsWithBracket(Trim(lines[n]))

\* text.lines().next().unwrap_or("")
FirstLine(text) == IF SplitLines(text) = <<>> THEN <<>> ELSE Head(SplitLines(text))

LineContains(text, b) == \E n \in DOMAIN text : text[n] = b

Detected(format, compressed) == [format |-> format, compressed |-> compressed]

\* detect_format(peek, hint)
DetectFormatOf(peek, hint) ==
    IF hint # "none" /\ FromHint(hint) # "none"
    THEN Detected(FromHint(hint), FromHint(hint) \in {"gzip", "zip"})
    ELSE IF Len(peek) >= 2 /\ peek[1] = "1f" /\ peek[2] = "8b" THEN Detected("gzip", TRUE)
    ELSE IF Len(peek) >= 4 /\ peek[1] = "P" /\ peek[2] = "K" /\ peek[3] = "03" /\ peek[4] = "04"
    THEN Detected("zip", TRUE)
    ELSE IF Len(peek) >= 4 /\ peek[1] = "P" /\ peek[2] = "K" THEN Detected("zip", TRUE)
    ELSE IF MostlyBinary(peek) THEN Detected("binary", FALSE)
    ELSE IF StartsWithBracket(TrimStart(peek))
    THEN IF NdjsonLike(peek) THEN Detected("ndjson", FALSE) ELSE Detected("json", FALSE)
    ELSE IF LineContains(FirstLine(peek), ",") THEN Detected("csv", FALSE)
    ELSE IF LineContains(FirstLine(peek), "TAB") THEN Detected("tsv", FALSE)
    ELSE Detected("text", FALSE)

\* detect_dump_type(peek): kind and compressed flag (the preview is left out)
DetectDumpTypeOf(peek) ==
    IF Len(peek) >= 2 /\ peek[1] = "1f" /\ peek[2] = "8b" THEN Detected("gzip", TRUE)
    ELSE IF MostlyBinary(peek) THEN Detected("binary", FALSE)
    ELSE IF StartsWithBracket(TrimStart(peek))
    THEN IF NdjsonLike(peek) THEN Detected("ndjson", FALSE) ELSE Detected("json", FALSE)
    ELSE IF LineContains(FirstLine(peek), ",") THEN Detected("csv", FALSE)
    ELSE Detected("text", FALSE)

InitDetect ==
    /\ dPeek \in SeqsUpTo(PeekBytes, MaxPeek)
    /\ dHint \in Hints
    /\ dFormat = NotDetected
    /\ dDump = NotDetected
    /\ MergeIdle
    /\ PersistIdle
    /\ SyncNew
    /\ ExtrasIdleExcept("detect")

\* multipart_upload: detect_format(peek, format_hint)
DetectFormat ==
    /\ dFormat = NotDetected
    /\ dFormat' = DetectFormatOf(dPeek, dHint)
    /\ UNCHANGED <<dPeek, dHint, dDump>>
    /\ UNCHANGED notDetect

\* bulk_dump_upload: detect_dump_type(peek)
DetectDumpType ==
    /\ dDump = NotDetected
    /\ dDump' = DetectDumpTypeOf(dPeek)
    /\ UNCHANGED <<dPeek, dHint, dFormat>>
    /\ UNCHANGED notDetect

NextDetect == DetectFormat \/ DetectDumpType

SpecDetect == InitDetect /\ [][NextDetect]_vars

\* the detection policy with its rules in the stated order
PolicyFormat(peek, hint) ==
    IF hint # "none" /\ FromHint(hint) # "none" THEN FromHint(hint)
    ELSE IF Len(peek) >= 2 /\ peek[1] = "1f" /\ peek[2] = "8b" THEN "gzip"
    ELSE IF Len(peek) >= 4 /\ peek[1] = "P" /\ peek[2] = "K" /\ peek[3] = "03" /\ peek[4] = "04"
    THEN "zip"
    ELSE IF MostlyBinary(peek) THEN "binary"
    ELSE IF StartsWithBracket(TrimStart(peek))
    THEN IF NdjsonLike(peek) THEN "ndjson" ELSE "json"
    ELSE IF LineContains(FirstLine(peek), "TAB") THEN "tsv"
    ELSE IF LineContains(FirstLine(peek), ",") THEN "csv"
    ELSE "text"

\* C26: format detection applies its rules in the stated order: known hint,
\* gzip magic, zip magic, printable ratio below 0.7, leading bracket, tab in
\* the first line, comma in the first line, else text; so a first line with
\* both a tab and a comma is detected as TSV.
C26_DetectionOrder ==
    /\ dFormat # NotDetected => dFormat.format = PolicyFormat(dPeek, dHint)
    /\ dDump # NotDetected => dDump.format = PolicyFormat(dPeek, "none")

(***************************************************************************)
(* Canonicalizers: the typed ones of src/lib/normalizers/mod.rs and the    *)
(* permissive canonicalize of src/ingest/ndjson.rs                         *)
(***************************************************************************)
MaxText == 3           \* texts given to the canonicalizers have at most MaxText characters

\* characters of a text: a hex letter in both cases, dot, space, at, underscore
Chars == {"A", "a", ".", " ", "@", "_"}

\* char::is_ascii_hexdigit
HexDigits == {"A", "a"}

\* [\W_] of punct_re
NonWord == {".", " ", "@", "_"}

\* the hash lengths 32, 40, 64, 96 and 128 that name an algorithm, scaled down
HashLengths == {2}

\* ASCII that the URL deny list of idna forbids in a domain
ForbiddenAscii == {" ", "@"}

RECURSIVE StripLeading(_, _)
StripLeading(str, set) ==
    IF str # <<>> /\ Head(str) \in set THEN StripLeading(Tail(str), set) ELSE str

RECURSIVE StripTrailing(_, _)
StripTrailing(str, set) ==
    IF str # <<>> /\ str[Len(str)] \in set
    THEN StripTrailing(SubSeq(str, 1, Len(str) - 1), set)
    ELSE str

\* punct_re.replace_all(str, ""): the runs of non-word characters at the two
\* ends are removed
StripPunct(str) == StripTrailing(StripLeading(str, NonWord), NonWord)

\* one trailing dot removed, if there is one
StripSuffixDot(str) ==
    IF str # <<>> /\ str[Len(str)] = "." THEN SubSeq(str, 1, Len(str) - 1) ELSE str

\* canonicalize(ftype, raw) of ndjson.rs
NdjsonCanonicalize(ftype, raw) ==
    IF ftype = "domain" THEN StripSuffixDot(ToLowercase(Trim(raw)))
    ELSE IF ftype = "ip" THEN Trim(raw)
    ELSE IF ftype = "hash" THEN StripPunct(ToLowercase(raw))
    ELSE CanonicalizeOther(raw)

\* idna::domain_to_ascii on ASCII input: letters are mapped to lower case and
\* dots are kept, the one of an empty root label included; ASCII that URLs
\* forbid is an error in the releases that apply the deny list
DomainToAscii(str, strict) ==
    IF strict /\ \E n \in DOMAIN str : str[n] \in ForbiddenAscii
    THEN Err("InvalidDomain")
    ELSE Ok(ToLowercase(str))

\* normalize_domain
NormalizeDomain(input, strict) ==
    LET trimmed == Trim(input)
        ascii == DomainToAscii(StripSuffixDot(trimmed), strict)
    IN  IF trimmed = <<>> THEN Err("InvalidDomain")
        ELSE IF ~ascii.ok THEN ascii
        ELSE IF ToLowercase(ascii.val) = <<>> THEN Err("InvalidDomain")
        ELSE Ok(ToLowercase(ascii.val))

\* normalize_hash
NormalizeHash(input) ==
    LET trimmed == Trim(input)
    IN  IF \E n \in DOMAIN trimmed : trimmed[n] \notin HexDigits THEN Err("InvalidHash")
        ELSE IF Len(trimmed) \notin HashLengths THEN Err("InvalidHash")
        ELSE Ok(ToLowercase(trimmed))

\* str::rfind: index of the last occurrence of b in str, 0 if there is none
LastPosition(str, b) ==
    IF \E n \in DOMAIN str : str[n] = b
    THEN CHOOSE n \in DOMAIN str : str[n] = b /\ \A k \in (n + 1)..Len(str) : str[k] # b
    ELSE 0

\* normalize_email
NormalizeEmail(input, strict) ==
    LET trimmed == Trim(input)
        at_pos == LastPosition(trimmed, "@")
        local == SubSeq(trimmed, 1, at_pos - 1)
        domain == NormalizeDomain(SubSeq(trimmed, at_pos + 1, Len(trimmed)), strict)
    IN  IF at_pos = 0 \/ at_pos = 1 \/ at_pos = Len(trimmed) THEN Err("InvalidEmail")
        ELSE IF ~domain.ok THEN domain
        ELSE Ok(local \o <<"@">> \o domain.val)

\* IP texts, by what the parser tells apart: padding with whitespace, the
\* address family, whether the address is spelled the way Display prints it
\* (IPv4 has one spelling only), and the text after a slash
IpTexts ==
    [padded : BOOLEAN, family : {"v4", "v6", "junk"}, spelling : {"std", "expanded"},
     prefix : {"none", "8", "08", "64", "200", "x"}]

PrefixValue(prefix) ==
    IF prefix \in {"8", "08"} THEN 8 ELSE IF prefix = "64" THEN 64 ELSE 200

PrefixText(n) == IF n = 8 THEN "8" ELSE IF n = 64 THEN "64" ELSE "200"

\* IpAddr::from_str
ParsesAsIp(text) ==
    \/ text.family = "v6"
    \/ text.family = "v4" /\ text.spelling = "std"

\* normalize_ip
NormalizeIp(text) ==
    IF text.prefix # "none"
    THEN IF ~ParsesAsIp(text) \/ text.prefix = "x" THEN Err("InvalidCidr")
         ELSE IF PrefixValue(text.prefix) > (IF text.family = "v4" THEN 32 ELSE 128)
         THEN Err("InvalidCidr")
         ELSE Ok([padded |-> FALSE, family |-> text.family, spelling |-> "std",
                  prefix |-> PrefixText(PrefixValue(text.prefix))])
    ELSE IF ~ParsesAsIp(text) THEN Err("InvalidIp")
    ELSE Ok([padded |-> FALSE, family |-> text.family, spelling |-> "std",
             prefix |-> "none"])

\* timestamp texts, by what the parsers tell apart: padding, the notation,
\* the offset and fraction of an RFC 3339 text, and whether the year has the
\* four digits of 0000..9999 or is written with a sign and five digits
TimestampTexts ==
    [padded : BOOLEAN, form : {"rfc3339", "unix", "naive", "junk"},
     offset : {"Z", "+02:00"}, fraction : BOOLEAN, year : {"4digits", "signed5"}]

\* to_rfc3339_opts(SecondsFormat::Secs, true) of an instant in UTC
ToRfc3339(year) ==
    [padded |-> FALSE, form |-> "rfc3339", offset |-> "Z", fraction |-> FALSE,
     year |-> year]

\* normalize_timestamp: parse_from_rfc3339 takes a year of exactly four
\* digits; Unix seconds and the NaiveDateTime formats reach later years
NormalizeTimestamp(text) ==
    IF text.form = "rfc3339" /\ text.year = "4digits" THEN Ok(ToRfc3339(text.year))
    ELSE IF text.form \in {"unix", "naive"} THEN Ok(ToRfc3339(text.year))
    ELSE Err("InvalidTimestamp")

CharPaths ==
    {"ndjson:domain", "ndjson:ip", "ndjson:hash", "ndjson:email", "ndjson:other",
     "domain", "hash", "email"}

\* the canonicalizer of a path applied to x
CanonicalizeBy(path, x, strict) ==
    IF path = "ndjson:domain" THEN Ok(NdjsonCanonicalize("domain", x))
    ELSE IF path = "ndjson:ip" THEN Ok(NdjsonCanonicalize("ip", x))
    ELSE IF path = "ndjson:hash" THEN Ok(NdjsonCanonicalize("hash", x))
    ELSE IF path = "ndjson:email" THEN Ok(NdjsonCanonicalize("email", x))
    ELSE IF path = "ndjson:other" THEN Ok(NdjsonCanonicalize("other", x))
    ELSE IF path = "domain" THEN NormalizeDomain(x, strict)
    ELSE IF path = "hash" THEN NormalizeHash(x)
    ELSE IF path = "email" THEN NormalizeEmail(x, strict)
    ELSE IF path = "ip" THEN NormalizeIp(x)
    ELSE NormalizeTimestamp(x)

InitCanon ==
    /\ \/ cPath \in CharPaths /\ cInput \in SeqsUpTo(Chars, MaxText)
       \/ cPath = "ip" /\ cInput \in IpTexts
       \/ cPath = "timestamp" /\ cInput \in TimestampTexts
    /\ cStrictAscii \in BOOLEAN
    /\ cOnce = NotRun
    /\ cTwice = NotRun
    /\ MergeIdle
    /\ PersistIdle
    /\ SyncNew
    /\ ExtrasIdleExcept("canon")

\* the input is canonicalized
Canonicalize ==
    /\ cOnce = NotRun
    /\ cOnce' = CanonicalizeBy(cPath, cInput, cStrictAscii)
    /\ UNCHANGED <<cPath, cInput, cStrictAscii, cTwice>>
    /\ UNCHANGED notCanon

\* the canonical form is canonicalized again, as when a stored key is
\* reprocessed
CanonicalizeAgain ==
    /\ cOnce.ok
    /\ cTwice = NotRun
    /\ cTwice' = CanonicalizeBy(cPath, cOnce.val, cStrictAscii)
    /\ UNCHANGED <<cPath, cInput, cStrictAscii, cOnce>>
    /\ UNCHANGED notCanon

NextCanon == Canonicalize \/ CanonicalizeAgain

SpecCanon == InitCanon /\ [][NextCanon]_vars

\* C27: canonicalization is idempotent: whenever canonicalizing an input
\* succeeds, canonicalizing the canonical form succeeds too and returns the
\* same canonical form, for every field type.
C27_CanonicalizeIdempotent ==
    cTwice # NotRun => (cTwice.ok /\ cTwice.val = cOnce.val)

(***************************************************************************)
(* Last writer wins, and the field rules of MergeSightings                 *)
(***************************************************************************)
\* a is after b in the order on (timestamp, origin)
Newer(a, b) ==
    \/ a.timestamp > b.timestamp
    \/ a.timestamp = b.timestamp /\ OriginRank(a.origin) > OriginRank(b.origin)

BothLive == ~mLocal.tombstone /\ ~mRemote.tombstone

DistinctVersions ==
    <<mLocal.version.timestamp, mLocal.version.origin>>
        # <<mRemote.version.timestamp, mRemote.version.origin>>

\* C28: under LastWriterWins with neither side tombstoned, merge returns one
\* of its inputs unchanged, the one whose VersionVector is newer; for distinct
\* (timestamp, origin) exactly one side is newer and it wins in both argument
\* orders.
C28_LwwNewerWins ==
    (mPc # "start" /\ Strategy = "LastWriterWins" /\ BothLive) =>
        /\ mAB.ok
        /\ mAB.val \in {mLocal, mRemote}
        /\ Newer(mRemote.version, mLocal.version) => mAB.val = mRemote
        /\ Newer(mLocal.version, mRemote.version) => mAB.val = mLocal
        /\ DistinctVersions =>
               Newer(mRemote.version, mLocal.version) # Newer(mLocal.version, mRemote.version)
        /\ (mPc = "done" /\ mOp = "b_a" /\ DistinctVersions) => mOut = mAB

\* both orders were merged for two live versions of equal timestamp and
\* different props, and the one of the greater origin won
C28_Witness ==
    /\ mPc = "done"
    /\ mOp = "b_a"
    /\ Strategy = "LastWriterWins"
    /\ BothLive
    /\ mLocal.version.timestamp = mRemote.version.timestamp
    /\ OriginRank(mRemote.version.origin) > OriginRank(mLocal.version.origin)
    /\ mLocal.props # mRemote.props
    /\ mAB = Ok(mRemote)
    /\ mOut = Ok(mRemote)

MergeFieldsOfRule ==
    LET rule == GetRule(mConfig, mLocal.entity_type)
    IN {rule.merge_fields[i] : i \in DOMAIN rule.merge_fields}

Has(version, field) == version.props.object /\ field \in DOMAIN version.props.map

Min(x, y) == IF x <= y THEN x ELSE y

Max(x, y) == IF x >= y THEN x ELSE y

\* out holds for field the join of the values a and b hold for it
JoinedField(field, a, b, out) ==
    IF Contains(field, "count")
    THEN /\ Has(out, field)
         /\ out.props.map[field]
              = AsU64OrZero(a.props.map, field) + AsU64OrZero(b.props.map, field)
    ELSE IF Contains(field, "seen") \/ Contains(field, "timestamp")
    THEN IF Has(a, field) /\ Has(b, field)
         THEN /\ Has(out, field)
              /\ out.props.map[field]
                   = IF Contains(field, "first")
                     THEN Min(a.props.map[field], b.props.map[field])
                     ELSE Max(a.props.map[field], b.props.map[field])
         ELSE IF Has(a, field) THEN Has(out, field) /\ out.props.map[field] = a.props.map[field]
         ELSE IF Has(b, field) THEN Has(out, field) /\ out.props.map[field] = b.props.map[field]
         ELSE ~Has(out, field)
    ELSE TRUE

\* C29: under MergeSightings with neither side tombstoned, every name of
\* merge_fields is joined in the result, in either argument order: a count
\* is the sum of the two sides (a missing one counting 0), a first-seen
\* timestamp the minimum and any other timestamp the maximum of the two.
C29_MergeFieldsJoined ==
    (Strategy = "MergeSightings" /\ BothLive) =>
        /\ mPc # "start" =>
             /\ mAB.ok
             /\ \A f \in MergeFieldsOfRule : JoinedField(f, mLocal, mRemote, mAB.val)
        /\ (mPc = "done" /\ mOp = "b_a") =>
             /\ mOut.ok
             /\ \A f \in MergeFieldsOfRule : JoinedField(f, mRemote, mLocal, mOut.val)

LwwFieldsOfRule ==
    LET rule == GetRule(mConfig, mLocal.entity_type)
    IN {rule.lww_fields[i] : i \in DOMAIN rule.lww_fields}

\* out holds for field what side holds for it: the same value, or none
SameField(field, out, side) ==
    /\ Has(out, field) <=> Has(side, field)
    /\ Has(side, field) => out.props.map[field] = side.props.map[field]

\* the lww_fields of out are those of the newer one of a and b
LwwFieldsOfNewer(a, b, out) ==
    \A f \in LwwFieldsOfRule :
        /\ Newer(b.version, a.version) => SameField(f, out, b)
        /\ Newer(a.version, b.version) => SameField(f, out, a)

\* C30: under MergeSightings with neither side tombstoned, each name of
\* lww_fields has in the result the value held by the side whose
\* VersionVector is newer, whichever argument that side is.
C30_LwwFieldsOfNewerSide ==
    (Strategy = "MergeSightings" /\ BothLive) =>
        /\ (mPc # "start" /\ mAB.ok) => LwwFieldsOfNewer(mLocal, mRemote, mAB.val)
        /\ (mPc = "done" /\ mOp = "b_a" /\ mOut.ok) => LwwFieldsOfNewer(mRemote, mLocal, mOut.val)

\* the property names the rule lists neither in merge_fields nor in lww_fields
UnlistedFields == FieldNames \ (MergeFieldsOfRule \cup LwwFieldsOfRule)

\* out keeps of first everything the rule does not list, and its identity
PreservesFirst(first, out) ==
    /\ out.props.object = first.props.object
    /\ \A f \in UnlistedFields : SameField(f, out, first)
    /\ out.entity_type = first.entity_type
    /\ out.key = first.key
    /\ out.tombstone = FALSE

\* C31: under MergeSightings with neither side tombstoned, every property
\* listed neither in merge_fields nor in lww_fields has in the result the
\* value of the local side (none, if only the remote side has it), and
\* entity_type, key and tombstone = false are taken over.
C31_UnlistedPropertiesLocal ==
    (Strategy = "MergeSightings" /\ BothLive) =>
        /\ (mPc # "start" /\ mAB.ok) => PreservesFirst(mLocal, mAB.val)
        /\ (mPc = "done" /\ mOp = "b_a" /\ mOut.ok) => PreservesFirst(mRemote, mOut.val)

\* the two sides hold different notes, and each order kept the note of its
\* first argument
C31_Witness ==
    /\ mPc = "done"
    /\ mOp = "b_a"
    /\ Strategy = "MergeSightings"
    /\ BothLive
    /\ "note" \in UnlistedFields
    /\ Has(mLocal, "note") /\ Has(mRemote, "note")
    /\ mLocal.props.map["note"] # mRemote.props.map["note"]
    /\ IsNewerThan(mRemote.version, mLocal.version)
    /\ mAB.ok /\ mAB.val.props.map["note"] = mLocal.props.map["note"]
    /\ mOut.ok /\ mOut.val.props.map["note"] = mRemote.props.map["note"]

(***************************************************************************)
(* Enrichment client: circuit breaker, token bucket and retry loop         *)
(* (src/enrich/resilient_client.rs, src/enrich/provider_config.rs)         *)
(***************************************************************************)
MaxRetries == 2        \* config.max_retries ranges over 0..MaxRetries
CbThreshold == 2       \* config.circuit_breaker_threshold
CbTimeout == 1         \* config.circuit_breaker_timeout, in ticks of the clock
EnrichBurst == 2       \* config.rate_limit_burst
MaxNow == 2            \* the clock stops at MaxNow
MaxCalls == 4          \* execute_with_retry is called at most MaxCalls times

\* config.rate_limit_rps, in tokens per tick of the clock
EnrichRefill == 1

\* what execute_once can return: the body, an error status, a timeout of the
\* request, a transport error
Outcomes == {"200", "500", "429", "408", "404", "Timeout", "HttpError"}

\* is_retryable_error
IsRetryableError(e) == e \in {"500", "429", "408", "Timeout", "HttpError"}

InitEnrich ==
    /\ eMaxRetries \in 0..MaxRetries
    /\ cbState = "Closed"
    /\ cbOpenedAt = 0
    /\ cbFailures = 0
    /\ rlTokens = EnrichBurst
    /\ rlLastRefill = 0
    /\ eNow = 0
    /\ ePc = [t \in Tasks |-> "idle"]
    /\ eAttempts = [t \in Tasks |-> 0]
    /\ eTrace = [t \in Tasks |-> <<>>]
    /\ eResult = [t \in Tasks |-> "none"]
    /\ eCalls = 0
    /\ eSinceSuccess = 0
    /\ MergeIdle
    /\ PersistIdle
    /\ SyncNew
    /\ ExtrasIdleExcept("enrich")

\* CircuitBreaker::record_success
RecordSuccess ==
    /\ cbState' = IF cbState = "HalfOpen" THEN "Closed" ELSE cbState
    /\ cbFailures' = IF cbState \in {"HalfOpen", "Closed"} THEN 0 ELSE cbFailures
    /\ eSinceSuccess' = 0
    /\ UNCHANGED cbOpenedAt

\* record_failure opening the breaker at once, whatever the count
RecordFailureTripsAtOnce ==
    /\ cbFailures' = cbFailures + 1
    /\ eSinceSuccess' = eSinceSuccess + 1
    /\ IF cbState \in {"Closed", "HalfOpen"}
       THEN cbState' = "Open" /\ cbOpenedAt' = eNow
       ELSE UNCHANGED <<cbState, cbOpenedAt>>

\* CircuitBreaker::record_failure
RecordFailure ==
    /\ cbFailures' = cbFailures + 1
    /\ eSinceSuccess' = eSinceSuccess + 1
    /\ IF \/ cbState = "Closed" /\ cbFailures + 1 >= CbThreshold
          \/ cbState = "HalfOpen"
       THEN cbState' = "Open" /\ cbOpenedAt' = eNow
       ELSE UNCHANGED <<cbState, cbOpenedAt>>

\* CircuitBreaker::can_attempt, as a value
CanAttempt == cbState # "Open" \/ eNow - cbOpenedAt >= CbTimeout

\* a task calls get or post: execute_with_retry starts
StartCall(t) ==
    /\ ePc[t] \in {"idle", "done"}
    /\ eCalls < MaxCalls
    /\ eCalls' = eCalls + 1
    /\ ePc' = [ePc EXCEPT ![t] = "start"]
    /\ eAttempts' = [eAttempts EXCEPT ![t] = 0]
    /\ eTrace' = [eTrace EXCEPT ![t] = <<>>]
    /\ eResult' = [eResult EXCEPT ![t] = "none"]
    /\ UNCHANGED <<eMaxRetries, cbState, cbOpenedAt, cbFailures, rlTokens,
                   rlLastRefill, eNow, eSinceSuccess>>
    /\ UNCHANGED notEnrich

\* top of the loop: cb.can_attempt(), which moves Open to HalfOpen after the
\* timeout
CheckBreaker(t) ==
    /\ ePc[t] = "start"
    /\ cbState' = IF cbState = "Open" /\ CanAttempt THEN "HalfOpen" ELSE cbState
    /\ IF CanAttempt
       THEN ePc' = [ePc EXCEPT ![t] = "limit"] /\ UNCHANGED eResult
       ELSE /\ ePc' = [ePc EXCEPT ![t] = "done"]
            /\ eResult' = [eResult EXCEPT ![t] = "CircuitBreakerOpen"]
    /\ UNCHANGED <<eMaxRetries, cbOpenedAt, cbFailures, rlTokens, rlLastRefill,
                   eNow, eAttempts, eTrace, eCalls, eSinceSuccess>>
    /\ UNCHANGED notEnrich

\* rl.try_acquire(), then the request is sent
TryAcquire(t) ==
    LET refilled == Min(rlTokens + (eNow - rlLastRefill) * EnrichRefill, EnrichBurst)
    IN  /\ ePc[t] = "limit"
        /\ rlLastRefill' = eNow
        /\ IF refilled >= 1
           THEN /\ rlTokens' = refilled - 1
                /\ ePc' = [ePc EXCEPT ![t] = "sending"]
                /\ eTrace' = [eTrace EXCEPT ![t] = Append(@, "request")]
                /\ UNCHANGED eResult
           ELSE /\ rlTokens' = refilled
                /\ ePc' = [ePc EXCEPT ![t] = "done"]
                /\ eResult' = [eResult EXCEPT ![t] = "RateLimitExceeded"]
                /\ UNCHANGED eTrace
        /\ UNCHANGED <<eMaxRetries, cbState, cbOpenedAt, cbFailures, eNow,
                       eAttempts, eCalls, eSinceSuccess>>
        /\ UNCHANGED notEnrich

\* execute_once returns Ok: record_success, return the body
RequestSucceeds(t) ==
    /\ ePc[t] = "sending"
    /\ RecordSuccess
    /\ ePc' = [ePc EXCEPT ![t] = "done"]
    /\ eResult' = [eResult EXCEPT ![t] = "200"]
    /\ UNCHANGED <<eMaxRetries, rlTokens, rlLastRefill, eNow, eAttempts, eTrace, eCalls>>
    /\ UNCHANGED notEnrich

\* execute_once returns Err(e): count the attempt and either give up with e
\* or sleep for the backoff
RequestFails(t) ==
    /\ ePc[t] = "sending"
    /\ \E e \in Outcomes \ {"200"} :
         LET attempts == eAttempts[t] + 1
             should_retry == attempts <= eMaxRetries /\ IsRetryableError(e)
         IN  /\ eAttempts' = [eAttempts EXCEPT ![t] = attempts]
             /\ IF should_retry
                THEN /\ ePc' = [ePc EXCEPT ![t] = "sleeping"]
                     /\ eTrace' = [eTrace EXCEPT ![t] = Append(@, "sleep")]
                     /\ UNCHANGED <<cbState, cbOpenedAt, cbFailures, eSinceSuccess, eResult>>
                ELSE /\ RecordFailure
                     /\ ePc' = [ePc EXCEPT ![t] = "done"]
                     /\ eResult' = [eResult EXCEPT ![t] = e]
                     /\ UNCHANGED eTrace
    /\ UNCHANGED <<eMaxRetries, rlTokens, rlLastRefill, eNow, eCalls>>
    /\ UNCHANGED notEnrich

\* sleep(backoff) is over: give up if this was the last retry, else loop
BackoffOver(t) ==
    /\ ePc[t] = "sleeping"
    /\ IF eAttempts[t] >= eMaxRetries
       THEN /\ RecordFailure
            /\ ePc' = [ePc EXCEPT ![t] = "done"]
            /\ eResult' = [eResult EXCEPT ![t] = "MaxRetriesExceeded"]
       ELSE /\ ePc' = [ePc EXCEPT ![t] = "start"]
            /\ UNCHANGED <<cbState, cbOpenedAt, cbFailures, eSinceSuccess, eResult>>
    /\ UNCHANGED <<eMaxRetries, rlTokens, rlLastRefill, eNow, eAttempts, eTrace, eCalls>>
    /\ UNCHANGED notEnrich

\* time passes
EnrichTick ==
    /\ eNow < MaxNow
    /\ eNow' = eNow + 1
    /\ UNCHANGED <<eMaxRetries, cbState, cbOpenedAt, cbFailures, rlTokens, rlLastRefill,
                   ePc, eAttempts, eTrace, eResult, eCalls, eSinceSuccess>>
    /\ UNCHANGED notEnrich

NextEnrich ==
    \/ \E t \in Tasks : StartCall(t)
    \/ \E t \in Tasks : CheckBreaker(t)
    \/ \E t \in Tasks : TryAcquire(t)
    \/ \E t \in Tasks : RequestSucceeds(t)
    \/ \E t \in Tasks : RequestFails(t)
    \/ \E t \in Tasks : BackoffOver(t)
    \/ EnrichTick

SpecEnrich == InitEnrich /\ [][NextEnrich]_vars

\* a failure was recorded in this step
FailureRecorded == eSinceSuccess' = eSinceSuccess + 1

\* a success was recorded in this step
SuccessRecorded == \E t \in Tasks : ePc[t] = "sending" /\ eResult'[t] = "200"

\* task t asked can_attempt in this step
AskedCanAttempt(t) == ePc[t] = "start" /\ ePc'[t] # "start"

TimeoutElapsed == eNow - cbOpenedAt >= CbTimeout

\* the breaker changes state in this step, and by one of the four transitions
BreakerTransition ==
    \/ /\ cbState = "Closed" /\ cbState' = "Open"
       /\ FailureRecorded
       /\ eSinceSuccess' = CbThreshold
       /\ cbOpenedAt' = eNow
    \/ /\ cbState = "Open" /\ cbState' = "HalfOpen"
       /\ \E t \in Tasks : AskedCanAttempt(t) /\ ePc'[t] = "limit"
       /\ TimeoutElapsed
    \/ /\ cbState = "HalfOpen" /\ cbState' = "Closed"
       /\ SuccessRecorded
       /\ cbFailures' = 0
    \/ /\ cbState = "HalfOpen" /\ cbState' = "Open"
       /\ FailureRecorded
       /\ cbOpenedAt' = eNow

\* C32: the circuit breaker makes only the transitions Closed -> Open when
\* the failures recorded since the last success reach the threshold,
\* Open -> HalfOpen on the first can_attempt after the timeout,
\* HalfOpen -> Closed with the failure count reset on a recorded success, and
\* HalfOpen -> Open on a recorded failure, and it makes them whenever their
\* condition is met; while it is Open and the timeout has not elapsed,
\* execute_with_retry returns CircuitBreakerOpen without sending a request.
C32_BreakerTransitions ==
    [][/\ cbState' # cbState => BreakerTransition
       /\ (cbState = "Closed" /\ FailureRecorded /\ eSinceSuccess' >= CbThreshold)
              => cbState' = "Open"
       /\ (cbState = "HalfOpen" /\ FailureRecorded) => cbState' = "Open"
       /\ (cbState = "HalfOpen" /\ SuccessRecorded) => cbState' = "Closed"
       /\ \A t \in Tasks :
            AskedCanAttempt(t) =>
              IF cbState = "Open" /\ ~TimeoutElapsed
              THEN /\ ePc'[t] = "done"
                   /\ eResult'[t] = "CircuitBreakerOpen"
                   /\ eTrace'[t] = eTrace[t]
                   /\ cbState' = "Open"
              ELSE /\ ePc'[t] = "limit"
                   /\ cbState' = IF cbState = "Open" THEN "HalfOpen" ELSE cbState]_vars

\* the breaker opened, refused a call without sending, let a later call
\* through after the timeout and closed again on its success
C32_Witness ==
    /\ cbState = "Closed"
    /\ cbFailures = 0
    /\ eCalls = MaxCalls
    /\ eNow >= CbTimeout
    /\ \E t \in Tasks : eResult[t] = "CircuitBreakerOpen" /\ eTrace[t] = <<>> /\ ePc[t] = "done"
    /\ \E t \in Tasks : eResult[t] = "200" /\ ePc[t] = "done"

\* the call of task t has given up after nothing but retryable failures
GaveUp(t) ==
    /\ ePc[t] = "done"
    /\ eResult[t] = "MaxRetriesExceeded" \/ IsRetryableError(eResult[t])

RequestsSent(t) == Cardinality({n \in DOMAIN eTrace[t] : eTrace[t][n] = "request"})

\* C33: a request that keeps failing with a retryable error is sent
\* max_retries + 1 times before execute_with_retry gives up, and no backoff
\* sleep follows the last attempt.
C33_RetriesBeforeGivingUp ==
    \A t \in Tasks :
        GaveUp(t) =>
            /\ RequestsSent(t) = eMaxRetries + 1
            /\ eTrace[t][Len(eTrace[t])] = "request"

(***************************************************************************)
(* The in-process HTTP rate limiter: devops/rate_limiter.rs and the        *)
(* per-connection service stack of run() in lib.rs.  The clock counts half *)
(* seconds and the f64 token count is kept in half tokens, so that a       *)
(* refill of a fraction of a token is represented.                         *)
(***************************************************************************)
MaxBurst == 2
MaxRps == 1
MaxClock == 2
MaxRequests == 4

\* one token, in the unit of limTokens
OneToken == 2

\* TokenBucket::new: a full bucket, refilled from now
NewBucket(c) ==
    /\ limTokens' = [limTokens EXCEPT ![c] = limBurst * OneToken]
    /\ limLastRefill' = [limLastRefill EXCEPT ![c] = limNow]

\* the token count after the refill of try_consume
Refilled(c) ==
    Min(limTokens[c] + (limNow - limLastRefill[c]) * limRps, limBurst * OneToken)

\* TokenBucket::try_consume on the bucket of connection c
TryConsume(c) == Refilled(c) >= OneToken

InitLimit ==
    /\ limBurst \in 1..MaxBurst
    /\ limRps \in 0..MaxRps
    /\ limOpen = {}
    /\ limTokens = [c \in Conns |-> 0]
    /\ limLastRefill = [c \in Conns |-> 0]
    /\ limNow = 0
    /\ limInner = 0
    /\ limDenied = 0
    /\ MergeIdle /\ PersistIdle /\ SyncNew
    /\ ExtrasIdleExcept("limit")

\* the task spawned for an accepted connection builds its service stack:
\* SharedRateLimitLayer::new makes a new limiter with a new bucket
AcceptConnection(c) ==
    /\ c \notin limOpen
    /\ limOpen' = limOpen \cup {c}
    /\ NewBucket(c)
    /\ UNCHANGED <<limBurst, limRps, limNow, limInner, limDenied>>
    /\ UNCHANGED notLimit

\* SharedRateLimitService::call for a request on connection c
ServeRequest(c) ==
    /\ c \in limOpen
    /\ limInner + limDenied < MaxRequests
    /\ limLastRefill' = [limLastRefill EXCEPT ![c] = limNow]
    /\ IF TryConsume(c)
       THEN /\ limTokens' = [limTokens EXCEPT ![c] = Refilled(c) - OneToken]
            /\ limInner' = limInner + 1
            /\ UNCHANGED limDenied
       ELSE /\ limTokens' = [limTokens EXCEPT ![c] = Refilled(c)]
            /\ limDenied' = limDenied + 1
            /\ UNCHANGED limInner
    /\ UNCHANGED <<limBurst, limRps, limOpen, limNow>>
    /\ UNCHANGED notLimit

\* half a second passes
LimitTick ==
    /\ limNow < MaxClock
    /\ limNow' = limNow + 1
    /\ UNCHANGED <<limBurst, limRps, limOpen, limTokens, limLastRefill, limInner, limDenied>>
    /\ UNCHANGED notLimit

NextLimit ==
    \/ \E c \in Conns : AcceptConnection(c)
    \/ \E c \in Conns : ServeRequest(c)
    \/ LimitTick

SpecLimit == InitLimit /\ [][NextLimit]_vars

\* C34: the rate limiter is one bucket for the whole server: with refill
\* rate 0 at most burst requests reach the inner service over all
\* connections together, and a bucket's token count stays within 0..burst.
C34_OneBucketForAllConnections ==
    /\ limRps = 0 => limInner <= limBurst
    /\ \A c \in limOpen : limTokens[c] >= 0 /\ limTokens[c] <= limBurst * OneToken

\* C35: whenever merge(local, remote) returns a version, its VersionVector
\* is the newer of the two input vectors, for every strategy and also when
\* one or both sides are tombstoned: neither input is newer than the result.
C35_VersionNeverMovesBack ==
    (mPc # "start" /\ mAB.ok) =>
        /\ mAB.val.version \in {mLocal.version, mRemote.version}
        /\ ~Newer(mLocal.version, mAB.val.version)
        /\ ~Newer(mRemote.version, mAB.val.version)

\* the entries some peer acknowledged in a Push frame
AckedBySomePeer == UNION {peerAcked[p] : p \in Peers}

MaxOidcCalls == 5

OidcOps == {"fd", "fj", "vt", "cc"}

\* the guards on lock l allow one more guard of this mode
Compatible(l, mode) ==
    IF mode = "read"
    THEN \A h \in oHeld[l] : h[2] = "read"
    ELSE oHeld[l] = {}

\* RwLock::read / RwLock::write by task t: the guard is given at once when
\* nobody waits and the mode is compatible; otherwise the task queues
Acquire(t, l, mode, has, wait) ==
    IF oQueue[l] = <<>> /\ Compatible(l, mode)
    THEN /\ oHeld' = [oHeld EXCEPT ![l] = @ \cup {<<t, mode>>}]
         /\ oPc' = [oPc EXCEPT ![t] = has]
         /\ UNCHANGED oQueue
    ELSE /\ oQueue' = [oQueue EXCEPT ![l] = Append(@, <<t, mode>>)]
         /\ oPc' = [oPc EXCEPT ![t] = wait]
         /\ UNCHANGED oHeld

\* the call of task t returns: every guard it holds is dropped
Return(t) ==
    /\ oHeld' = [l \in Locks |-> {h \in oHeld[l] : h[1] # t}]
    /\ oPc' = [oPc EXCEPT ![t] = "idle"]
    /\ UNCHANGED oQueue

\* where a task goes on when the guard it waits for is given
Resume(pc) ==
    CASE pc = "fd_waitD" -> "fd_hasD"
      [] pc = "fj_waitD" -> "fj_hasD"
      [] pc = "fj_waitJ" -> "fj_hasJ"
      [] pc = "vt_waitJ" -> "vt_hasJ"
      [] pc = "vt_waitD" -> "vt_hasD"
      [] pc = "cc_waitD" -> "cc_hasD"
      [] OTHER -> pc

InitOidc ==
    /\ oPc = [t \in OidcTasks |-> "idle"]
    /\ oHeld = [l \in Locks |-> {}]
    /\ oQueue = [l \in Locks |-> <<>>]
    /\ oDoc = FALSE
    /\ oKeys = FALSE
    /\ oCalls = 0
    /\ MergeIdle /\ PersistIdle /\ SyncNew
    /\ ExtrasIdleExcept("oidc")

\* a task calls fetch_discovery, fetch_jwks (or refresh_jwks),
\* validate_token or get_client_credentials_token
OidcCall(t, op) ==
    /\ oPc[t] = "idle"
    /\ oCalls < MaxOidcCalls
    /\ oCalls' = oCalls + 1
    /\ oPc' = [oPc EXCEPT ![t] = op \o "_start"]
    /\ UNCHANGED <<oHeld, oQueue, oDoc, oKeys>>
    /\ UNCHANGED notOidc

\* the lock gives its guard to the first waiter
Grant(l) ==
    /\ oQueue[l] # <<>>
    /\ LET w == Head(oQueue[l])
       IN /\ Compatible(l, w[2])
          /\ oHeld' = [oHeld EXCEPT ![l] = @ \cup {w}]
          /\ oQueue' = [oQueue EXCEPT ![l] = Tail(@)]
          /\ oPc' = [oPc EXCEPT ![w[1]] = Resume(@)]
    /\ UNCHANGED <<oDoc, oKeys, oCalls>>
    /\ UNCHANGED notOidc

\* fetch_discovery: the HTTP request, then the write lock on discovery_doc
FetchDiscoveryHttp(t) ==
    /\ oPc[t] = "fd_start"
    /\ \E ok \in BOOLEAN :
        IF ok THEN Acquire(t, "discovery_doc", "write", "fd_hasD", "fd_waitD")
        ELSE Return(t)
    /\ UNCHANGED <<oDoc, oKeys, oCalls>>
    /\ UNCHANGED notOidc

FetchDiscoveryStore(t) ==
    /\ oPc[t] = "fd_hasD"
    /\ oDoc' = TRUE
    /\ Return(t)
    /\ UNCHANGED <<oKeys, oCalls>>
    /\ UNCHANGED notOidc

\* fetch_jwks: the read lock on discovery_doc
FetchJwksLock(t) ==
    /\ oPc[t] = "fj_start"
    /\ Acquire(t, "discovery_doc", "read", "fj_hasD", "fj_waitD")
    /\ UNCHANGED <<oDoc, oKeys, oCalls>>
    /\ UNCHANGED notOidc

\* fetch_jwks: the HTTP request under the read guard, then the write lock on
\* jwks with the read guard still held
FetchJwksHttp(t) ==
    /\ oPc[t] = "fj_hasD"
    /\ IF ~oDoc THEN Return(t)
       ELSE \E ok \in BOOLEAN :
            IF ok THEN Acquire(t, "jwks", "write", "fj_hasJ", "fj_waitJ")
            ELSE Return(t)
    /\ UNCHANGED <<oDoc, oKeys, oCalls>>
    /\ UNCHANGED notOidc

FetchJwksStore(t) ==
    /\ oPc[t] = "fj_hasJ"
    /\ oKeys' = TRUE
    /\ Return(t)
    /\ UNCHANGED <<oDoc, oCalls>>
    /\ UNCHANGED notOidc

\* validate_token: the header is decoded, then the read lock on jwks
ValidateTokenLock(t) ==
    /\ oPc[t] = "vt_start"
    /\ \E headerOk \in BOOLEAN :
        IF headerOk THEN Acquire(t, "jwks", "read", "vt_hasJ", "vt_waitJ")
        ELSE Return(t)
    /\ UNCHANGED <<oDoc, oKeys, oCalls>>
    /\ UNCHANGED notOidc

\* validate_token: the key is looked up, then the read lock on discovery_doc
\* with the read guard on jwks still held
ValidateTokenKey(t) ==
    /\ oPc[t] = "vt_hasJ"
    /\ IF ~oKeys THEN Return(t)
       ELSE \E keyOk \in BOOLEAN :
            IF keyOk THEN Acquire(t, "discovery_doc", "read", "vt_hasD", "vt_waitD")
            ELSE Return(t)
    /\ UNCHANGED <<oDoc, oKeys, oCalls>>
    /\ UNCHANGED notOidc

ValidateTokenDecode(t) ==
    /\ oPc[t] = "vt_hasD"
    /\ Return(t)
    /\ UNCHANGED <<oDoc, oKeys, oCalls>>
    /\ UNCHANGED notOidc

\* get_client_credentials_token: the read lock on discovery_doc
ClientCredentialsLock(t) ==
    /\ oPc[t] = "cc_start"
    /\ Acquire(t, "discovery_doc", "read", "cc_hasD", "cc_waitD")
    /\ UNCHANGED <<oDoc, oKeys, oCalls>>
    /\ UNCHANGED notOidc

\* get_client_credentials_token: the token request under the read guard
ClientCredentialsHttp(t) ==
    /\ oPc[t] = "cc_hasD"
    /\ Return(t)
    /\ UNCHANGED <<oDoc, oKeys, oCalls>>
    /\ UNCHANGED notOidc

\* the steps of a call that has started
OidcStep(t) ==
    \/ FetchDiscoveryHttp(t)
    \/ FetchDiscoveryStore(t)
    \/ FetchJwksLock(t)
    \/ FetchJwksHttp(t)
    \/ FetchJwksStore(t)
    \/ ValidateTokenLock(t)
    \/ ValidateTokenKey(t)
    \/ ValidateTokenDecode(t)
    \/ ClientCredentialsLock(t)
    \/ ClientCredentialsHttp(t)

NextOidc ==
    \/ \E t \in OidcTasks, op \in OidcOps : OidcCall(t, op)
    \/ \E l \in Locks : Grant(l)
    \/ \E t \in OidcTasks : OidcStep(t)

SpecOidc == InitOidc /\ [][NextOidc]_vars

\* every started call is scheduled, every HTTP request returns, and a lock
\* that can serve its first waiter does so
SpecOidcLive ==
    /\ SpecOidc
    /\ \A t \in OidcTasks : WF_vars(OidcStep(t))
    /\ \A l \in Locks : WF_vars(Grant(l))

\* C37: concurrent calls of fetch_discovery, fetch_jwks, validate_token and
\* get_client_credentials_token never deadlock on discovery_doc and jwks:
\* every call that has started eventually returns, holding no lock.
C37_CallsComplete ==
    \A t \in OidcTasks :
        (oPc[t] # "idle") ~>
            (oPc[t] = "idle" /\ \A l \in Locks : \A h \in oHeld[l] : h[1] # t)

\* C38: while the worker runs, the persist_queue_length gauge equals the
\* number of jobs waiting in the channel and is never negative; a submit
\* rejected with Full or Closed leaves it unchanged.
C38_GaugeIsQueueLength ==
    wPc # "aborted" =>
        /\ metrics.persist_queue_length = Len(channel)
        /\ metrics.persist_queue_length >= 0

\* with AgeClient merge_batch never returns Err, so the per-item loop of
\* flush_buffer is never entered
NextPersistAge ==
    \/ HandlerSubmit \/ HandlerSyncUpsert \/ BulkSubmit \/ DropSenders
    \/ WorkerRecv \/ WorkerTimer \/ WorkerClosed \/ WorkerAborted

SpecPersistAge == InitPersistAge /\ [][NextPersistAge]_vars

\* store calls of the flushes that failed, by kind
FailedStoreCalls(ops) ==
    Cardinality({n \in DOMAIN calls :
        /\ calls[n].by \in {"worker", "age_client"}
        /\ calls[n].op \in ops
        /\ ~calls[n].ok})

\* C39: a job the store ultimately fails to persist shows in the failure
\* counters: every failed per-item attempt is counted in
\* persist_per_item_failures and the failed batch before it in
\* persist_batch_failures, also when the store is AgeClient, whose merge_batch
\* runs its own per-item fallback.
C39_FailuresCounted ==
    /\ metrics.persist_per_item_failures >= FailedStoreCalls({"merge_entity"})
    /\ FailedStoreCalls({"merge_entity"}) > 0 =>
           metrics.persist_batch_failures >= 1

\* C40: for batch_size >= 1 the worker's buffer never holds more than
\* batch_size jobs, every merge_batch call of the worker receives between 1
\* and batch_size jobs, and the buffer is empty right after every flush.
C40_BatchSizeBounds ==
    [][/\ Len(buffer') <= pBatch
       /\ \A n \in DOMAIN calls' :
            (calls'[n].op = "merge_batch" /\ calls'[n].by = "worker") =>
                Len(calls'[n].items) \in 1..pBatch
       /\ (/\ Len(calls') > Len(calls)
           /\ calls'[Len(calls) + 1].op = "merge_batch") => buffer' = <<>>]_vars

\* with batch_size 2 a full batch of two jobs went to merge_batch, the
\* buffer is empty again and the worker is back in its select
C40_Witness ==
    /\ pBatch = 2
    /\ \E n \in DOMAIN calls :
        calls[n].op = "merge_batch" /\ calls[n].items = <<1, 2>>
    /\ buffer = <<>>
    /\ wPc = "select"

====
